---- MODULE Spec2Model ----
(***************************************************************************)
(* Model of the AI-Reviewer-App core: the document extractor               *)
(* (lib/parsers), the upload route, and the question synthesizer          *)
(* (lib/groq.ts, lib/gemini.ts).                                           *)
(*                                                                         *)
(* A JavaScript string is a sequence of one-character strings.  Values of  *)
(* external libraries (JSZip, pdf-parse, the completion service) are the   *)
(* environment: they are drawn from small pools when the code awaits them. *)
(***************************************************************************)
EXTENDS Integers, Sequences, FiniteSets, TLC

\* ------------------------------------------------------------------------
\* Bounds
\* ------------------------------------------------------------------------
MaxEntries == 3
MaxResp == 3
MaxCount == 3
MaxTextLen == 6
MaxTags == 3
MaxEvents == 5
MaxStored == 3
NumCallers == 2

\* ------------------------------------------------------------------------
\* JavaScript strings
\* ------------------------------------------------------------------------
Undefined == "undefined"

WS == {" ", "\t", "\n", "\r"}

\* a || b on strings and undefined
OrElse(a, b) == IF a \in {Undefined, ""} THEN b ELSE a

DigitChars == <<"0", "1", "2", "3", "4", "5", "6", "7", "8", "9">>
Digit == {DigitChars[i] : i \in 1..10}
DigitVal(c) == (CHOOSE i \in 1..10 : DigitChars[i] = c) - 1

UpperChars == <<"A", "B", "C", "D", "E", "F", "G", "H", "I", "J", "K", "L", "M",
                "N", "O", "P", "Q", "R", "S", "T", "U", "V", "W", "X", "Y", "Z">>
LowerChars == <<"a", "b", "c", "d", "e", "f", "g", "h", "i", "j", "k", "l", "m",
                "n", "o", "p", "q", "r", "s", "t", "u", "v", "w", "x", "y", "z">>

LowerOf(c) ==
    IF \E i \in 1..26 : UpperChars[i] = c
    THEN LowerChars[CHOOSE i \in 1..26 : UpperChars[i] = c]
    ELSE c

toLowerCase(s) == [i \in 1..Len(s) |-> LowerOf(s[i])]

RECURSIVE Rep(_, _)
Rep(c, n) == IF n <= 0 THEN <<>> ELSE <<c>> \o Rep(c, n - 1)

RECURSIVE trimStart(_)
trimStart(s) ==
    IF s = <<>> THEN <<>>
    ELSE IF Head(s) \in WS THEN trimStart(Tail(s)) ELSE s

RECURSIVE trimEnd(_)
trimEnd(s) ==
    IF s = <<>> THEN <<>>
    ELSE IF s[Len(s)] \in WS THEN trimEnd(SubSeq(s, 1, Len(s) - 1)) ELSE s

trim(s) == trimEnd(trimStart(s))

RECURSIVE SplitAcc(_, _, _, _)
SplitAcc(s, sep, cur, acc) ==
    IF s = <<>> THEN Append(acc, cur)
    ELSE IF Head(s) = sep
         THEN SplitAcc(Tail(s), sep, <<>>, Append(acc, cur))
         ELSE SplitAcc(Tail(s), sep, Append(cur, Head(s)), acc)

split(s, sep) == SplitAcc(s, sep, <<>>, <<>>)

RECURSIVE join(_, _)
join(parts, sep) ==
    IF parts = <<>> THEN <<>>
    ELSE IF Len(parts) = 1 THEN parts[1]
    ELSE parts[1] \o sep \o join(Tail(parts), sep)

startsWithAt(s, i, lit) ==
    /\ i >= 1
    /\ i + Len(lit) - 1 <= Len(s)
    /\ SubSeq(s, i, i + Len(lit) - 1) = lit

startsWith(s, lit) == startsWithAt(s, 1, lit)

endsWith(s, lit) == startsWithAt(s, Len(s) - Len(lit) + 1, lit)

\* index of the first element of s at or after i that is c; 0 when none
RECURSIVE FindChar(_, _, _)
FindChar(s, i, c) ==
    IF i > Len(s) THEN 0
    ELSE IF s[i] = c THEN i ELSE FindChar(s, i + 1, c)

\* index after the maximal run of digits that starts at i
RECURSIVE SkipDigits(_, _)
SkipDigits(s, i) ==
    IF i <= Len(s) /\ s[i] \in Digit THEN SkipDigits(s, i + 1) ELSE i

RECURSIVE parseInt(_)
parseInt(ds) ==
    IF ds = <<>> THEN 0
    ELSE parseInt(SubSeq(ds, 1, Len(ds) - 1)) * 10 + DigitVal(ds[Len(ds)])

\* ------------------------------------------------------------------------
\* lib/parsers/index.ts : extension routing
\* ------------------------------------------------------------------------
EXT_PPTX == <<"p", "p", "t", "x">>
EXT_PPT == <<"p", "p", "t">>
EXT_PDF == <<"p", "d", "f">>

SUPPORTED_EXTENSIONS == {EXT_PPTX, EXT_PPT, EXT_PDF}

\* filename.split('.').pop()?.toLowerCase() || ''
getFileExtension(filename) ==
    LET parts == split(filename, ".")
    IN  toLowerCase(parts[Len(parts)])

isSupportedFile(filename) == getFileExtension(filename) \in SUPPORTED_EXTENSIONS

\* ------------------------------------------------------------------------
\* lib/parsers/pdf.ts : PDF strategy
\* ------------------------------------------------------------------------
\* .replace(/[ \t]+/g, ' ')
RECURSIVE DropBlanks(_)
DropBlanks(s) ==
    IF s # <<>> /\ Head(s) \in {" ", "\t"} THEN DropBlanks(Tail(s)) ELSE s

RECURSIVE CollapseBlanks(_)
CollapseBlanks(s) ==
    IF s = <<>> THEN <<>>
    ELSE IF Head(s) \in {" ", "\t"}
         THEN <<" ">> \o CollapseBlanks(DropBlanks(s))
         ELSE <<Head(s)>> \o CollapseBlanks(Tail(s))

\* .replace(/\n{3,}/g, '\n\n')
RECURSIVE NewlineRun(_)
NewlineRun(s) ==
    IF s # <<>> /\ Head(s) = "\n" THEN 1 + NewlineRun(Tail(s)) ELSE 0

RECURSIVE CollapseNewlines(_)
CollapseNewlines(s) ==
    IF s = <<>> THEN <<>>
    ELSE LET n == NewlineRun(s)
         IN  IF n = 0 THEN <<Head(s)>> \o CollapseNewlines(Tail(s))
             ELSE (IF n >= 3 THEN <<"\n", "\n">> ELSE Rep("\n", n))
                  \o CollapseNewlines(SubSeq(s, n + 1, Len(s)))

TrimLines(s) ==
    LET lines == split(s, "\n")
    IN  join([i \in 1..Len(lines) |-> trim(lines[i])], <<"\n">>)

\* cleanPDFText without the final .trim()
cleanPDFText_NoFinalTrim(text) == TrimLines(CollapseNewlines(CollapseBlanks(text)))

cleanPDFText(text) == trim(TrimLines(CollapseNewlines(CollapseBlanks(text))))

\* ------------------------------------------------------------------------
\* lib/parsers/pptx.ts : slide strategy
\* ------------------------------------------------------------------------
L_SLIDE_DIR == <<"p", "p", "t", "/", "s", "l", "i", "d", "e", "s", "/", "s", "l", "i", "d", "e">>
L_SLIDE == <<"s", "l", "i", "d", "e">>
L_XML == <<".", "x", "m", "l">>
L_AT_OPEN == <<"<", "a", ":", "t", ">">>
L_AT_CLOSE == <<"<", "/", "a", ":", "t", ">">>
L_T_OPEN == <<"<", "t">>
L_T_CLOSE == <<"<", "/", "t", ">">>
L_HEADER == <<"[", "S", "l", "i", "d", "e", " ">>

\* relativePath.match(/ppt\/slides\/slide\d+\.xml$/)
IsSlidePath(path) ==
    \E i \in 1..Len(path) :
        /\ startsWithAt(path, i, L_SLIDE_DIR)
        /\ LET d == i + Len(L_SLIDE_DIR)
               e == SkipDigits(path, d)
           IN  /\ e > d
               /\ startsWithAt(path, e, L_XML)
               /\ e + Len(L_XML) - 1 = Len(path)

\* path.match(/slide(\d+)\.xml/)?.[1] : the digits of the leftmost match;
\* the empty sequence stands for "no match" (a match has at least one digit)
SlideMatchAt(path, i) ==
    /\ startsWithAt(path, i, L_SLIDE)
    /\ LET d == i + Len(L_SLIDE)
           e == SkipDigits(path, d)
       IN  e > d /\ startsWithAt(path, e, L_XML)

SlideDigits(path) ==
    IF \E i \in 1..Len(path) : SlideMatchAt(path, i)
    THEN LET i == CHOOSE k \in 1..Len(path) :
                      /\ SlideMatchAt(path, k)
                      /\ \A m \in 1..(k - 1) : ~SlideMatchAt(path, m)
             d == i + Len(L_SLIDE)
         IN  SubSeq(path, d, SkipDigits(path, d) - 1)
    ELSE <<>>

\* parseInt(a.match(/slide(\d+)\.xml/)?.[1] || '0')
SlideSortKey(path) ==
    IF SlideDigits(path) = <<>> THEN 0 ELSE parseInt(SlideDigits(path))

\* the default comparator of sort(): the digit strings compared as text
RECURSIVE LexCompare(_, _)
LexCompare(a, b) ==
    IF a = <<>> /\ b = <<>> THEN 0
    ELSE IF a = <<>> THEN -1
    ELSE IF b = <<>> THEN 1
    ELSE IF Head(a) # Head(b) THEN DigitVal(Head(a)) - DigitVal(Head(b))
    ELSE LexCompare(Tail(a), Tail(b))

SlideCompare_Lexicographic(a, b) == LexCompare(SlideDigits(a), SlideDigits(b))

\* the comparator of slideFiles.sort: numA - numB
SlideCompare(a, b) == SlideSortKey(a) - SlideSortKey(b)

\* Array.prototype.sort is stable: x goes after every element that does not
\* compare greater than it
RECURSIVE InsertSlide(_, _)
InsertSlide(sorted, x) ==
    IF sorted = <<>> THEN <<x>>
    ELSE IF SlideCompare(Head(sorted), x) <= 0
         THEN <<Head(sorted)>> \o InsertSlide(Tail(sorted), x)
         ELSE <<x>> \o sorted

RECURSIVE SortSlides(_)
SortSlides(paths) ==
    IF paths = <<>> THEN <<>>
    ELSE InsertSlide(SortSlides(SubSeq(paths, 1, Len(paths) - 1)), paths[Len(paths)])

\* zip.forEach(...) pushing the paths that match, in enumeration order
RECURSIVE FilterSlidePaths(_)
FilterSlidePaths(entries) ==
    IF entries = <<>> THEN <<>>
    ELSE (IF IsSlidePath(Head(entries).path) THEN <<Head(entries).path>> ELSE <<>>)
         \o FilterSlidePaths(Tail(entries))

\* one attempt of /<a:t>([^<]*)<\/a:t>/ at position i: next = 0 when it fails
PrimaryAt(xml, i) ==
    IF ~startsWithAt(xml, i, L_AT_OPEN) THEN [next |-> 0, text |-> <<>>]
    ELSE LET b == i + Len(L_AT_OPEN)
             j == FindChar(xml, b, "<")
         IN  IF j # 0 /\ startsWithAt(xml, j, L_AT_CLOSE)
             THEN [next |-> j + Len(L_AT_CLOSE), text |-> SubSeq(xml, b, j - 1)]
             ELSE [next |-> 0, text |-> <<>>]

\* one attempt of /<t[^>]*>([^<]*)<\/t>/ at position i
FallbackAt(xml, i) ==
    IF ~startsWithAt(xml, i, L_T_OPEN) THEN [next |-> 0, text |-> <<>>]
    ELSE LET k == FindChar(xml, i + Len(L_T_OPEN), ">")
             j == IF k = 0 THEN 0 ELSE FindChar(xml, k + 1, "<")
         IN  IF k # 0 /\ j # 0 /\ startsWithAt(xml, j, L_T_CLOSE)
             THEN [next |-> j + Len(L_T_CLOSE), text |-> SubSeq(xml, k + 1, j - 1)]
             ELSE [next |-> 0, text |-> <<>>]

\* the first while loop: textRegex.exec(xml) until null
RECURSIVE PrimaryLoop(_, _, _)
PrimaryLoop(xml, i, textParts) ==
    IF i > Len(xml) THEN textParts
    ELSE LET m == PrimaryAt(xml, i)
         IN  IF m.next = 0 THEN PrimaryLoop(xml, i + 1, textParts)
             ELSE PrimaryLoop(xml, m.next,
                      IF trim(m.text) # <<>> THEN Append(textParts, trim(m.text))
                      ELSE textParts)

Includes(parts, text) == \E i \in 1..Len(parts) : parts[i] = text

\* the second while loop: altTextRegex.exec(xml) until null
RECURSIVE FallbackLoop(_, _, _)
FallbackLoop(xml, i, textParts) ==
    IF i > Len(xml) THEN textParts
    ELSE LET m == FallbackAt(xml, i)
         IN  IF m.next = 0 THEN FallbackLoop(xml, i + 1, textParts)
             ELSE FallbackLoop(xml, m.next,
                      IF trim(m.text) # <<>> /\ ~Includes(textParts, trim(m.text))
                      THEN Append(textParts, trim(m.text))
                      ELSE textParts)

\* the character class [\d...\-\*] of the re-flow test; the three other
\* members of the class in the source are the characters U+00E2, U+20AC, U+00A2
BulletStart == Digit \cup {"-", "*", "U+00E2", "U+20AC", "U+00A2"}

LongPart == 50

StartsNewLine(part) == Head(part) \in BulletStart \/ Len(part) > LongPart

\* the for loop over textParts; st = [result, currentLine]
RECURSIVE Reflow(_, _, _)
Reflow(textParts, result, currentLine) ==
    IF textParts = <<>>
    THEN IF currentLine # <<>> THEN result \o currentLine ELSE result
    ELSE LET part == Head(textParts)
         IN  IF StartsNewLine(part)
             THEN Reflow(Tail(textParts),
                         IF currentLine # <<>> THEN result \o currentLine \o <<"\n">>
                         ELSE result,
                         part)
             ELSE Reflow(Tail(textParts), result,
                         currentLine \o (IF currentLine # <<>> THEN <<" ">> ELSE <<>>) \o part)

\* textParts after the two while loops
TextParts(xml) == FallbackLoop(xml, 1, PrimaryLoop(xml, 1, <<>>))

extractTextFromSlideXml(xml) ==
    Reflow(FallbackLoop(xml, 1, PrimaryLoop(xml, 1, <<>>)), <<>>, <<>>)

\* the template "[Slide ${slideNum}]\n${slideText}", slideNum = match?.[1] || "?"
SlideBlock(slidePath, slideText) ==
    L_HEADER
    \o (IF SlideDigits(slidePath) = <<>> THEN <<"?">> ELSE SlideDigits(slidePath))
    \o <<"]", "\n">> \o slideText

\* the blocks joined by a single newline
JoinBlocks_SingleNewline(blocks) == join(blocks, <<"\n">>)

\* slideContents.join('\n\n')
JoinBlocks(blocks) == join(blocks, <<"\n", "\n">>)

\* the count of the blocks instead of the count of the slide entries
slideCount_BlocksOnly(files, contents) == Len(contents)

\* metadata: { slideCount: slideFiles.length }
slideCount(files, contents) == Len(files)

\* ------------------------------------------------------------------------
\* State
\* ------------------------------------------------------------------------
VARIABLES
    request,        \* the multipart request of POST /api/upload
    uploadPc,       \* position of the upload handler
    zip,            \* entries of the loaded archive, in enumeration order
    slideFiles,     \* parsePPTX: the sorted slide paths
    slideIdx,       \* parsePPTX: index of the next slide of the for loop
    slideContents,  \* parsePPTX: the blocks pushed so far
    invoked,        \* the parser strategies parseFileBuffer has called, in order
    result,         \* <<ParseResult>> once parseFileBuffer has returned
    response        \* <<body>> once the upload handler has responded

extractVars == <<request, uploadPc, zip, slideFiles, slideIdx, slideContents,
                 invoked, result, response>>

VARIABLES
    aiProvider,     \* which client module serves generateQuestions
    apiKey,         \* the credential read from the environment ('' when unset)
    qType,          \* generateQuestions: the type selector
    qCount,         \* generateQuestions: the requested count
    genPc,          \* position of generateQuestions
    outbound,       \* the completion requests issued by this invocation
    responseText,   \* <<text>> once the completion service has answered
    genResult,      \* <<outcome>> once generateQuestions has settled
    consoleLog      \* what was written with console.error

synthVars == <<aiProvider, apiKey, qType, qCount, genPc, outbound, responseText,
               genResult, consoleLog>>

VARIABLES
    callPc,         \* position of a direct call of a library function
    callArgs,       \* the arguments of that call
    callResult      \* what the call returned

callVars == <<callPc, callArgs, callResult>>

VARIABLES
    supabaseConfigured, \* isSupabaseConfigured, fixed when the module loads
    genRequest,     \* the JSON body of POST /api/generate
    handlerPc,      \* position of the generate handler
    quizzes,        \* rows of the quizzes table
    questionRows,   \* rows of the questions table
    genResponse     \* <<body>> once the generate handler has responded

handlerVars == <<supabaseConfigured, genRequest, handlerPc, quizzes, questionRows,
                 genResponse>>

VARIABLES
    route,          \* the page the browser shows
    selectedFile,   \* HomePage: <<file>> once a file was chosen
    isUploading,    \* HomePage: the upload of handleContinue is under way
    uploadedContent, \* sessionStorage: <<item>> under the key uploadedContent
    uploadedData,   \* ConfigurePage: <<data>> once the effect has loaded it
    effectRan,      \* ConfigurePage: the mount effect has run
    isGenerating,   \* ConfigurePage: the request of handleGenerate is under way
    inflight,       \* the fetch calls whose response has not arrived yet
    netLog          \* the requests sent and the responses received, in order

pageVars == <<route, selectedFile, isUploading, uploadedContent, uploadedData,
              effectRan, isGenerating, inflight, netLog>>

VARIABLES
    submission,     \* the quiz id and JSON body of POST /api/quiz/[id]/submit
    submitPc,       \* position of the submit handler
    scored,         \* <<[score, total, correctAnswers]>> once the loop has run
    attempts,       \* rows of the attempts table
    submitResponse  \* <<body>> once the submit handler has responded

submitVars == <<submission, submitPc, scored, attempts, submitResponse>>

VARIABLES
    pageQuiz,           \* QuizPage: <<quiz with questions>> once it was fetched
    isLoading,      \* QuizPage: the fetch of the quiz is under way
    currentIndex,   \* QuizPage: index of the question shown, from 0
    pageAnswers,        \* QuizPage: per question id, <<>> or <<the answer recorded>>
    inputValue,     \* QuestionCard: what the text input shows
    isSubmitting,   \* QuizPage: the submit request is under way
    quizError,      \* QuizPage: error is set
    submitted       \* <<answers>> of the submit request that is under way

quizVars == <<pageQuiz, isLoading, currentIndex, pageAnswers, inputValue, isSubmitting,
              quizError, submitted>>

VARIABLES
    studyNotes,     \* rows of the study_notes table
    noteRequest,    \* per caller, the JSON body of POST /api/notes
    notePc,         \* per caller, the position in the handler
    existing,       \* per caller, what the select of createOrUpdateStudyNote found
    noteResponse    \* per caller, <<body>> once the handler has responded

noteVars == <<studyNotes, noteRequest, notePc, existing, noteResponse>>

appVars == <<pageVars, submitVars, quizVars, noteVars>>

vars == <<extractVars, synthVars, callVars, handlerVars, appVars>>

CallIdle ==
    /\ callPc = "idle"
    /\ callArgs = <<>>
    /\ callResult = <<>>

HandlerIdle ==
    /\ supabaseConfigured = FALSE
    /\ genRequest = <<>>
    /\ handlerPc = "idle"
    /\ quizzes = <<>>
    /\ questionRows = <<>>
    /\ genResponse = <<>>

PagesIdle ==
    /\ route = "none"
    /\ selectedFile = <<>>
    /\ isUploading = FALSE
    /\ uploadedContent = <<>>
    /\ uploadedData = <<>>
    /\ effectRan = FALSE
    /\ isGenerating = FALSE
    /\ inflight = <<>>
    /\ netLog = <<>>

SubmitIdle ==
    /\ submission = <<>>
    /\ submitPc = "idle"
    /\ scored = <<>>
    /\ attempts = <<>>
    /\ submitResponse = <<>>

QuizIdle ==
    /\ pageQuiz = <<>>
    /\ isLoading = FALSE
    /\ currentIndex = 0
    /\ pageAnswers = <<>>
    /\ inputValue = ""
    /\ isSubmitting = FALSE
    /\ quizError = FALSE
    /\ submitted = <<>>

NotesIdle ==
    /\ studyNotes = <<>>
    /\ noteRequest = <<>>
    /\ notePc = <<>>
    /\ existing = <<>>
    /\ noteResponse = <<>>

AppIdle ==
    /\ PagesIdle
    /\ SubmitIdle
    /\ QuizIdle
    /\ NotesIdle

\* ------------------------------------------------------------------------
\* Inputs of the extractor
\* ------------------------------------------------------------------------
\* const maxSize = 50 * 1024 * 1024
maxSize == 50 * 1024 * 1024

\* if (result.content.length < 50)
MinContentLength == 50

FileNames ==
    { <<"d", "e", "c", "k", ".", "p", "p", "t", "x">>,
      <<"d", "e", "c", "k", ".", "P", "P", "T">>,
      <<"n", "o", "t", "e", "s", ".", "p", "d", "f">>,
      <<"n", "o", "t", "e", "s", ".", "P", "d", "F">>,
      <<"n", "o", "t", "e", "s", ".", "t", "x", "t">>,
      <<"a", ".", "p", "d", "f", ".", "d", "o", "c", "x">>,
      <<"n", "o", "t", "e", "s", ".">>,
      <<"n", "o", "t", "e", "s">>,
      <<"p", "d", "f">> }

Requests ==
    { [kind |-> k, name |-> <<>>, size |-> 0] : k \in {"malformed", "nofile"} }
    \cup { [kind |-> "file", name |-> n, size |-> sz] :
             n \in FileNames, sz \in {1, maxSize, maxSize + 1} }

SlidePathOf(digits) == L_SLIDE_DIR \o digits \o L_XML

EntryPaths ==
    { SlidePathOf(<<"1">>), SlidePathOf(<<"2">>), SlidePathOf(<<"1", "0">>),
      <<"p", "p", "t", "/", "s", "l", "i", "d", "e", "s", "/", "_", "r", "e", "l", "s", "/">>
          \o <<"s", "l", "i", "d", "e", "1", ".", "x", "m", "l", ".", "r", "e", "l", "s">> }

ATag(text) == L_AT_OPEN \o text \o L_AT_CLOSE
TTag(text) == L_T_OPEN \o <<">">> \o text \o L_T_CLOSE

\* slide payloads: text in both tags, a text that puts a one-digit slide one
\* character under the floor of the upload handler, blank text, empty payload
SlideXmls ==
    { ATag(<<"C", "e", "l", "l">>) \o TTag(<<"T", "h", "e", "o", "r", "y">>),
      ATag(Rep("a", MinContentLength - Len(L_HEADER) - 4)),
      ATag(<<" ">>),
      <<>> }

Entries ==
    { [path |-> p, xml |-> x, readFails |-> FALSE] : p \in EntryPaths, x \in SlideXmls }
    \cup { [path |-> p, xml |-> <<>>, readFails |-> TRUE] : p \in EntryPaths }

\* an archive holds each path at most once
Archives ==
    UNION { { a \in [1..n -> Entries] :
                \A i, j \in 1..n : i # j => a[i].path # a[j].path } :
            n \in 0..MaxEntries }

PdfTexts ==
    { lead \o body \o trail :
        lead \in { <<>>, <<" ">>, <<"\n", "\n", "\n">> },
        body \in { <<>>,
                   Rep("a", MinContentLength - 1),
                   Rep("a", MinContentLength),
                   Rep("a", 25) \o <<" ", " ", "\t">> \o Rep("a", MinContentLength - 27),
                   <<"a", " ", "\n", "\n", "\n", "\n", "b">> },
        trail \in { <<>>, <<" ">>, <<"\t", "\n">> } }

\* ------------------------------------------------------------------------
\* Results
\* ------------------------------------------------------------------------
ParseOk(content, metadata) ==
    [success |-> TRUE, content |-> content, error |-> Undefined, metadata |-> metadata]

ParseFail(error) ==
    [success |-> FALSE, content |-> <<>>, error |-> error, metadata |-> <<>>]

Reply(success, content, error, status) ==
    [success |-> success, content |-> content, error |-> error, status |-> status]

\* ------------------------------------------------------------------------
\* POST /api/upload and parseFileBuffer
\* ------------------------------------------------------------------------
SynthIdle ==
    /\ aiProvider = "groq"
    /\ apiKey = ""
    /\ qType = "multiple_choice"
    /\ qCount = 1
    /\ genPc = "idle"
    /\ outbound = <<>>
    /\ responseText = <<>>
    /\ genResult = <<>>
    /\ consoleLog = <<>>

ExtractInit ==
    /\ request \in Requests
    /\ uploadPc = "start"
    /\ zip = <<>>
    /\ slideFiles = <<>>
    /\ slideIdx = 0
    /\ slideContents = <<>>
    /\ invoked = <<>>
    /\ result = <<>>
    /\ response = <<>>
    /\ SynthIdle
    /\ CallIdle
    /\ HandlerIdle
    /\ AppIdle

\* formData(), the "no file" and the size checks
UploadValidate ==
    /\ uploadPc = "start"
    /\ IF request.kind = "malformed"
       THEN /\ response' = <<Reply(FALSE, <<>>, "Failed to process file", 500)>>
            /\ uploadPc' = "done"
       ELSE IF request.kind = "nofile"
       THEN /\ response' = <<Reply(FALSE, <<>>, "No file provided", 400)>>
            /\ uploadPc' = "done"
       ELSE IF request.size > maxSize
       THEN /\ response' = <<Reply(FALSE, <<>>, "File too large. Maximum size is 50MB.", 400)>>
            /\ uploadPc' = "done"
       ELSE /\ response' = response
            /\ uploadPc' = "parse"
    /\ UNCHANGED <<request, zip, slideFiles, slideIdx, slideContents, invoked, result>>
    /\ UNCHANGED <<synthVars, callVars, handlerVars, appVars>>

\* parseFileBuffer up to the call of a strategy
ParseFileBufferDispatch ==
    /\ uploadPc = "parse"
    /\ LET extension == getFileExtension(request.name)
       IN  IF ~isSupportedFile(request.name)
           THEN /\ result' = <<ParseFail("Unsupported file type")>>
                /\ invoked' = invoked
                /\ uploadPc' = "respond"
           ELSE IF extension \in {EXT_PPTX, EXT_PPT}
           THEN /\ result' = result
                /\ invoked' = Append(invoked, "parsePPTX")
                /\ uploadPc' = "pptx_load"
           ELSE IF extension = EXT_PDF
           THEN /\ result' = result
                /\ invoked' = Append(invoked, "parsePDF")
                /\ uploadPc' = "pdf_parse"
           ELSE /\ result' = <<ParseFail("No parser available")>>
                /\ invoked' = invoked
                /\ uploadPc' = "respond"
    /\ UNCHANGED <<request, zip, slideFiles, slideIdx, slideContents, response>>
    /\ UNCHANGED <<synthVars, callVars, handlerVars, appVars>>

\* a catch that hands back the blocks extracted before the failure
PptxCatch_Partial(blocks) ==
    [success |-> FALSE, content |-> JoinBlocks(blocks),
     error |-> "Failed to parse PowerPoint", metadata |-> <<>>]

\* the catch of parsePPTX; blocks is slideContents at the time of the throw
PptxCatch(blocks) == ParseFail("Failed to parse PowerPoint")

\* parsePPTX: JSZip.loadAsync, the forEach that collects the slides, the sort
PptxLoad ==
    /\ uploadPc = "pptx_load"
    /\ \/ /\ result' = <<PptxCatch(slideContents)>>
          /\ uploadPc' = "respond"
          /\ UNCHANGED <<zip, slideFiles, slideIdx>>
       \/ \E archive \in Archives :
            /\ zip' = archive
            /\ slideFiles' = SortSlides(FilterSlidePaths(archive))
            /\ slideIdx' = 1
            /\ uploadPc' = "pptx_slides"
            /\ result' = result
    /\ UNCHANGED <<request, slideContents, invoked, response>>
    /\ UNCHANGED <<synthVars, callVars, handlerVars, appVars>>

EntryAt(path) == zip[CHOOSE i \in 1..Len(zip) : zip[i].path = path]

\* parsePPTX: one iteration of the for loop over slideFiles
PptxReadSlide ==
    /\ uploadPc = "pptx_slides"
    /\ slideIdx <= Len(slideFiles)
    /\ LET slidePath == slideFiles[slideIdx]
           entry == EntryAt(slidePath)
           slideText == extractTextFromSlideXml(entry.xml)
       IN  IF entry.readFails
           THEN /\ result' = <<PptxCatch(slideContents)>>
                /\ uploadPc' = "respond"
                /\ UNCHANGED <<slideIdx, slideContents>>
           ELSE /\ slideContents' =
                      IF entry.xml # <<>> /\ trim(slideText) # <<>>
                      THEN Append(slideContents, SlideBlock(slidePath, slideText))
                      ELSE slideContents
                /\ slideIdx' = slideIdx + 1
                /\ UNCHANGED <<result, uploadPc>>
    /\ UNCHANGED <<request, zip, slideFiles, invoked, response>>
    /\ UNCHANGED <<synthVars, callVars, handlerVars, appVars>>

\* parsePPTX: the join and the result
PptxFinish ==
    /\ uploadPc = "pptx_slides"
    /\ slideIdx > Len(slideFiles)
    /\ LET fullContent == JoinBlocks(slideContents)
       IN  result' =
             IF trim(fullContent) = <<>>
             THEN <<ParseFail("No text content found in the PowerPoint file")>>
             ELSE <<ParseOk(fullContent,
                            [slideCount |-> slideCount(slideFiles, slideContents)])>>
    /\ uploadPc' = "respond"
    /\ UNCHANGED <<request, zip, slideFiles, slideIdx, slideContents, invoked, response>>
    /\ UNCHANGED <<synthVars, callVars, handlerVars, appVars>>

\* typeof window === 'undefined' in the route handler
isServer == TRUE

\* parsePDFServer without the test for blank text
parsePDFServer_NoBlankCheck(data) ==
    ParseOk(cleanPDFText(data.text), [pageCount |-> data.numpages])

\* parsePDFServer on the value of pdfParse(buffer)
parsePDFServer(data) ==
    IF trim(data.text) = <<>>
    THEN ParseFail("No text content found in the PDF file")
    ELSE ParseOk(cleanPDFText(data.text), [pageCount |-> data.numpages])

\* parsePDF: pdf-parse either throws or returns the text of the document
PdfParse ==
    /\ uploadPc = "pdf_parse"
    /\ IF isServer
       THEN \/ result' = <<ParseFail("Failed to parse PDF")>>
            \/ \E text \in PdfTexts :
                 result' = <<parsePDFServer([text |-> text, numpages |-> 1])>>
       ELSE result' = <<ParseFail("Invalid input type for PDF parser")>>
    /\ uploadPc' = "respond"
    /\ UNCHANGED <<request, zip, slideFiles, slideIdx, slideContents, invoked, response>>
    /\ UNCHANGED <<synthVars, callVars, handlerVars, appVars>>

\* the upload handler after parseFileBuffer returned
UploadRespond ==
    /\ uploadPc = "respond"
    /\ LET r == result[1]
       IN  response' =
             IF ~r.success
             THEN <<Reply(FALSE, <<>>, OrElse(r.error, "Failed to parse file"), 400)>>
             ELSE IF Len(r.content) < MinContentLength
             THEN <<Reply(FALSE, <<>>, "Not enough content found in the file", 400)>>
             ELSE <<Reply(TRUE, r.content, Undefined, 200)>>
    /\ uploadPc' = "done"
    /\ UNCHANGED <<request, zip, slideFiles, slideIdx, slideContents, invoked, result>>
    /\ UNCHANGED <<synthVars, callVars, handlerVars, appVars>>

ExtractNext ==
    \/ UploadValidate
    \/ ParseFileBufferDispatch
    \/ PptxLoad
    \/ PptxReadSlide
    \/ PptxFinish
    \/ PdfParse
    \/ UploadRespond

SpecExtract == ExtractInit /\ [][ExtractNext]_vars


\* ------------------------------------------------------------------------
\* lib/groq.ts, lib/gemini.ts : the question synthesizer
\* ------------------------------------------------------------------------
\* A completion text is a sequence of units: single characters for the fence
\* markers and the whitespace, and one unit for each JSON token ("[", ",",
\* "]", a whole value such as an object) or word of prose.
QuestionTypes == {"multiple_choice", "identification", "true_false", "mixed"}

\* the unit that stands for the backtick character
Tick == "<backtick>"

L_FENCE_JSON == <<Tick, Tick, Tick, "j", "s", "o", "n">>
L_FENCE == <<Tick, Tick, Tick>>

\* s.slice(n) and s.slice(0, -n)
slice(s, n) == SubSeq(s, n + 1, Len(s))
sliceEnd(s, n) == SubSeq(s, 1, Len(s) - n)

\* fence stripping that tests for the bare marker before the tagged one
StripFences_BareFirst(responseTextArg) ==
    LET t0 == trim(responseTextArg)
        t1 == IF startsWith(t0, L_FENCE) THEN slice(t0, Len(L_FENCE))
              ELSE IF startsWith(t0, L_FENCE_JSON) THEN slice(t0, Len(L_FENCE_JSON))
              ELSE t0
        t2 == IF endsWith(t1, L_FENCE) THEN sliceEnd(t1, Len(L_FENCE)) ELSE t1
    IN  trim(t2)

\* parseQuestionsFromResponse: trim, drop the fence markers, trim
StripFences(responseTextArg) ==
    LET t0 == trim(responseTextArg)
        t1 == IF startsWith(t0, L_FENCE_JSON) THEN slice(t0, Len(L_FENCE_JSON))
              ELSE IF startsWith(t0, L_FENCE) THEN slice(t0, Len(L_FENCE))
              ELSE t0
        t2 == IF endsWith(t1, L_FENCE) THEN sliceEnd(t1, Len(L_FENCE)) ELSE t1
    IN  trim(t2)

\* the JSON values the completion service is modelled to return as one unit
JsonObject(type, question_text, correct_answer, options, explanation) ==
    [kind |-> "object", type |-> type, question_text |-> question_text,
     correct_answer |-> correct_answer, options |-> options,
     explanation |-> explanation]

\* a value without own properties: every property read gives undefined
JsonScalar(kind) ==
    [kind |-> kind, type |-> Undefined, question_text |-> Undefined,
     correct_answer |-> Undefined, options |-> <<>>, explanation |-> Undefined]

JsonValues ==
    [ mc      |-> JsonObject("multiple_choice", "Which model?", "MOHO",
                             << <<"MOHO", "PEO", "CMOP", "KAWA">> >>, "Stated in the text."),
      tf      |-> JsonObject("true_false", "OT is a profession.", "True",
                             << <<"True", "False">> >>, Undefined),
      id      |-> JsonObject("identification", "Name the frame.", "Biomechanical",
                             <<>>, "Stated in the text."),
      untyped |-> JsonObject(Undefined, "What is ADL?", "Self care", <<>>, Undefined),
      empty   |-> JsonObject(Undefined, Undefined, Undefined, <<>>, Undefined),
      blank   |-> JsonObject("multiple_choice", "", "Rood", << <<"MOHO", "PEO">> >>, ""),
      null    |-> JsonScalar("null"),
      number  |-> JsonScalar("number") ]

JsonUnits == DOMAIN JsonValues

\* JSON.parse ignores the whitespace between tokens
RECURSIVE JsonTokens(_)
JsonTokens(text) ==
    IF text = <<>> THEN <<>>
    ELSE IF Head(text) \in WS THEN JsonTokens(Tail(text))
    ELSE <<Head(text)>> \o JsonTokens(Tail(text))

\* value (, value)* as the inside of an array
RECURSIVE IsElementList(_)
IsElementList(toks) ==
    /\ toks # <<>>
    /\ Head(toks) \in JsonUnits
    /\ \/ Len(toks) = 1
       \/ /\ Len(toks) >= 3
          /\ toks[2] = ","
          /\ IsElementList(SubSeq(toks, 3, Len(toks)))

\* JSON.parse(cleanedText): ok = FALSE stands for the SyntaxError
JSONparse(text) ==
    LET toks == JsonTokens(text)
        n == Len(toks)
    IN  IF n = 1 /\ toks[1] \in JsonUnits
        THEN [ok |-> TRUE, isArray |-> FALSE, elems |-> <<JsonValues[toks[1]]>>]
        ELSE IF n = 2 /\ toks[1] = "[" /\ toks[2] = "]"
        THEN [ok |-> TRUE, isArray |-> TRUE, elems |-> <<>>]
        ELSE IF n >= 3 /\ toks[1] = "[" /\ toks[n] = "]"
                /\ IsElementList(SubSeq(toks, 2, n - 1))
        THEN [ok |-> TRUE, isArray |-> TRUE,
              elems |-> [i \in 1..((n - 1) \div 2) |-> JsonValues[toks[2 * i]]]]
        ELSE [ok |-> FALSE, isArray |-> FALSE, elems |-> <<>>]

\* a placeholder numbered by the 0-based index
Placeholder_ZeroBased(i) == "Question " \o ToString(i - 1)

\* the template literal Question ${index + 1}; i is index + 1
Placeholder(i) == "Question " \o ToString(i)

\* an answer that is handed on as the response gave it
AnswerOrEmpty_Raw(q) == q.correct_answer

\* q.correct_answer || ''
AnswerOrEmpty(q) == OrElse(q.correct_answer, "")

\* options that are never handed on
OptionsOrUndefined_Dropped(q) == <<>>

\* q.options || undefined: an array, even the empty one, is truthy
OptionsOrUndefined(q) == q.options

\* the callback of questions.map; i is index + 1
CleanQuestion(q, i, type) ==
    [type |-> OrElse(q.type, type),
     question_text |-> OrElse(q.question_text, Placeholder(i)),
     correct_answer |-> AnswerOrEmpty(q),
     options |-> OptionsOrUndefined(q),
     explanation |-> OrElse(q.explanation, Undefined)]

\* a map that first drops the elements that carry no type
RECURSIVE DropUntyped(_)
DropUntyped(elems) ==
    IF elems = <<>> THEN <<>>
    ELSE (IF Head(elems).type \in {Undefined, ""} THEN <<>> ELSE <<Head(elems)>>)
         \o DropUntyped(Tail(elems))

MapQuestions_DropUntyped(elems, type) ==
    [i \in 1..Len(DropUntyped(elems)) |-> CleanQuestion(DropUntyped(elems)[i], i, type)]

\* questions.map((q, index) => ...)
MapQuestions(elems, type) ==
    [i \in 1..Len(elems) |-> CleanQuestion(elems[i], i, type)]

\* parseQuestionsFromResponse: ok = FALSE stands for the thrown
\* 'Failed to parse generated questions'.  map is not a function of a value
\* that is no array, and reading a property of null throws.
parseQuestionsFromResponse(responseTextArg, type) ==
    LET parsed == JSONparse(StripFences(responseTextArg))
    IN  IF /\ parsed.ok
           /\ parsed.isArray
           /\ \A i \in 1..Len(parsed.elems) : parsed.elems[i].kind # "null"
        THEN [ok |-> TRUE, questions |-> MapQuestions(parsed.elems, type)]
        ELSE [ok |-> FALSE, questions |-> <<>>]

\* a split that floors the third share as well
MixedSplit_AllFloored(count) ==
    [mc |-> count \div 2, id |-> count \div 4, tf |-> count \div 4]

\* the three sub-counts of the mixed prompt (groq.ts)
MixedSplit(count) ==
    LET mcCount == count \div 2
        idCount == count \div 4
    IN  [mc |-> mcCount, id |-> idCount, tf |-> count - mcCount - idCount]

\* the three sub-counts of the mixed prompt (gemini.ts): Math.floor(count * 0.4)
\* and Math.floor(count * 0.3); the doubles count * 0.4 and count * 0.3 floor
\* to (4 * count) div 10 and (3 * count) div 10 for every count in 1..50
MixedSplitGemini(count) ==
    LET mcCount == (count * 4) \div 10
        idCount == (count * 3) \div 10
    IN  [mc |-> mcCount, id |-> idCount, tf |-> count - mcCount - idCount]

\* the length at which groq.ts cuts the content it embeds
MaxPromptChars == 10000

\* String.prototype.substring for 0 <= from <= to
substring(s, from, to) ==
    SubSeq(s, from + 1, IF to < Len(s) THEN to ELSE Len(s))

\* the study material a prompt embeds: ${content.substring(0, 10000)} in
\* groq.ts, ${content} in gemini.ts
EmbeddedMaterial(provider, content) ==
    IF provider = "groq" THEN substring(content, 0, MaxPromptChars) ELSE content

\* buildPrompt: the template literal that is returned, written as the template
\* chosen by provider and selector together with the values interpolated into
\* it, in the order of their appearance.  gemini.ts interpolates count into
\* baseInstruction, groq.ts does not.
buildPrompt(provider, content, type, count) ==
    LET counts == IF provider = "groq" THEN MixedSplit(count)
                                      ELSE MixedSplitGemini(count)
        inBase == IF provider = "groq" THEN <<>> ELSE <<count>>
    IN  [ template |-> <<provider, type>>,
          material |-> EmbeddedMaterial(provider, content),
          numbers  |-> IF type = "mixed"
                       THEN inBase \o <<counts.mc, counts.id, counts.tf>>
                       ELSE inBase \o <<count>> ]

\* one completion request per concrete type of a mixed selector
CompletionRequests_PerType(provider, type, count) ==
    IF type = "mixed"
    THEN << [provider |-> provider, type |-> "multiple_choice", count |-> MixedSplit(count).mc],
            [provider |-> provider, type |-> "identification", count |-> MixedSplit(count).id],
            [provider |-> provider, type |-> "true_false", count |-> MixedSplit(count).tf] >>
    ELSE << [provider |-> provider, type |-> type, count |-> count] >>

\* the requests one invocation sends: groq.chat.completions.create(...) or
\* model.generateContent(prompt), called once with the one prompt
CompletionRequests(provider, type, count) ==
    << [provider |-> provider, type |-> type, count |-> count] >>

\* a credential test that never fires
KeyMissing_Never(key) == FALSE

\* if (!apiKey)
KeyMissing(key) == key = ""

KeyName(provider) == IF provider = "groq" THEN "GROQ_API_KEY" ELSE "GEMINI_API_KEY"

ConfigError(provider) == KeyName(provider) \o " is not configured in .env file"

\* the catch of generateQuestions: log, then throw the wrapped error
GenFail(message) ==
    [ok |-> FALSE, questions |-> <<>>,
     error |-> "Failed to generate questions: " \o message]

GenOk(questions) == [ok |-> TRUE, questions |-> questions, error |-> Undefined]

LogEntry(label, message, raw) == [label |-> label, message |-> message, raw |-> raw]

ErrorDetails(provider, message) ==
    LogEntry((IF provider = "groq" THEN "Groq" ELSE "Gemini") \o " API Error Details:",
             message, <<>>)

\* a catch that logs the text left after fence stripping
ParseFailureLog_Stripped(responseTextArg) ==
    << LogEntry("Error parsing questions:", "", <<>>),
       LogEntry("Raw response:", "", StripFences(responseTextArg)) >>

\* the catch of parseQuestionsFromResponse: console.error('Error parsing
\* questions:', error) and console.error('Raw response:', responseText)
ParseFailureLog(responseTextArg) ==
    << LogEntry("Error parsing questions:", "", <<>>),
       LogEntry("Raw response:", "", responseTextArg) >>

\* ------------------------------------------------------------------------
\* Inputs of the synthesizer
\* ------------------------------------------------------------------------
Providers == {"groq", "gemini"}

\* the texts "[" v1 "," ... "," vn "]" with up to MaxResp values
RECURSIVE ArrayInside(_)
ArrayInside(units) ==
    IF units = <<>> THEN <<>>
    ELSE IF Len(units) = 1 THEN units
    ELSE <<Head(units), ",">> \o ArrayInside(Tail(units))

JsonArrayTexts ==
    { <<"[">> \o ArrayInside(units) \o <<"]">> :
        units \in UNION { [1..n -> JsonUnits] : n \in 0..MaxResp } }

\* bodies that are no JSON array: prose, a cut-off array, a lone object, null,
\* the empty completion
OtherBodies ==
    { <<"Sorry", " ", "I", " ", "cannot">>, <<"[", "mc", ",">>, <<"mc">>, <<"null">>, <<>> }

Bodies == JsonArrayTexts \cup OtherBodies

\* the ways the completion service wraps a body
Wrap(body) ==
    { body,
      L_FENCE_JSON \o <<"\n">> \o body \o <<"\n">> \o L_FENCE,
      L_FENCE \o <<"\n">> \o body \o <<"\n">> \o L_FENCE,
      <<" ", "\n">> \o body \o <<"\n">>,
      L_FENCE_JSON \o <<"\n">> \o body }

ResponseTexts == UNION { Wrap(body) : body \in Bodies }

\* ------------------------------------------------------------------------
\* generateQuestions
\* ------------------------------------------------------------------------
ExtractIdle ==
    /\ request = [kind |-> "nofile", name |-> <<>>, size |-> 0]
    /\ uploadPc = "idle"
    /\ zip = <<>>
    /\ slideFiles = <<>>
    /\ slideIdx = 0
    /\ slideContents = <<>>
    /\ invoked = <<>>
    /\ result = <<>>
    /\ response = <<>>

SynthInit ==
    /\ aiProvider \in Providers
    /\ apiKey \in {"", "secret"}
    /\ qType \in QuestionTypes
    /\ qCount \in 1..MaxCount
    /\ genPc = "start"
    /\ outbound = <<>>
    /\ responseText = <<>>
    /\ genResult = <<>>
    /\ consoleLog = <<>>
    /\ ExtractIdle
    /\ CallIdle
    /\ HandlerIdle
    /\ AppIdle

\* generateQuestions up to the await of the completion call.  gemini.ts
\* builds the prompt before the credential test, groq.ts after it; neither
\* order sends anything.
GenerateStart ==
    /\ genPc = "start"
    /\ IF KeyMissing(apiKey)
       THEN /\ genResult' = <<GenFail(ConfigError(aiProvider))>>
            /\ consoleLog' = Append(consoleLog,
                                    ErrorDetails(aiProvider, ConfigError(aiProvider)))
            /\ genPc' = "done"
            /\ outbound' = outbound
       ELSE /\ outbound' = outbound \o CompletionRequests(aiProvider, qType, qCount)
            /\ genPc' = "awaiting"
            /\ UNCHANGED <<genResult, consoleLog>>
    /\ UNCHANGED <<aiProvider, apiKey, qType, qCount, responseText>>
    /\ UNCHANGED <<extractVars, callVars, handlerVars, appVars>>

\* the completion call rejects: network failure or non-success status
GenerateCallFails ==
    /\ genPc = "awaiting"
    /\ genResult' = <<GenFail("Connection error.")>>
    /\ consoleLog' = Append(consoleLog, ErrorDetails(aiProvider, "Connection error."))
    /\ genPc' = "done"
    /\ UNCHANGED <<aiProvider, apiKey, qType, qCount, outbound, responseText>>
    /\ UNCHANGED <<extractVars, callVars, handlerVars, appVars>>

\* the completion call resolves with a text, which is parsed
GenerateReceive ==
    /\ genPc = "awaiting"
    /\ \E text \in ResponseTexts :
         LET parsed == parseQuestionsFromResponse(text, qType)
         IN  /\ responseText' = <<text>>
             /\ IF parsed.ok
                THEN /\ genResult' = <<GenOk(parsed.questions)>>
                     /\ consoleLog' = consoleLog
                ELSE /\ genResult' = <<GenFail("Failed to parse generated questions")>>
                     /\ consoleLog' = consoleLog \o ParseFailureLog(text) \o
                          << ErrorDetails(aiProvider, "Failed to parse generated questions") >>
    /\ genPc' = "done"
    /\ UNCHANGED <<aiProvider, apiKey, qType, qCount, outbound>>
    /\ UNCHANGED <<extractVars, callVars, handlerVars, appVars>>

SynthNext ==
    \/ GenerateStart
    \/ GenerateCallFails
    \/ GenerateReceive

SpecSynth == SynthInit /\ [][SynthNext]_vars

\* ------------------------------------------------------------------------
\* POST /api/generate
\* ------------------------------------------------------------------------
\* the largest count the generate handler lets through
MaxQuestionCount == 50

\* the length at which the handler cuts the content it stores with the quiz
MaxStoredChars == 5000

\* filename.replace(/\.[^/.]+$/, ''): the last dot and what follows it, when
\* that is at least one character and holds no slash
LastDot(s) ==
    IF \E k \in 1..Len(s) : s[k] = "."
    THEN CHOOSE k \in 1..Len(s) :
            s[k] = "." /\ \A j \in (k + 1)..Len(s) : s[j] # "."
    ELSE 0

RemoveExtension(s) ==
    LET d == LastDot(s)
    IN  IF d > 0 /\ d < Len(s) /\ \A j \in (d + 1)..Len(s) : s[j] # "/"
        THEN SubSeq(s, 1, d - 1)
        ELSE s

\* .replace(/[-_]/g, ' ')
DashesToSpaces(s) == [k \in 1..Len(s) |-> IF s[k] \in {"-", "_"} THEN " " ELSE s[k]]

\* .replace(/\s+/g, ' ')
RECURSIVE NormalizeSpaces(_)
NormalizeSpaces(s) ==
    IF s = <<>> THEN <<>>
    ELSE IF Head(s) \in WS THEN <<" ">> \o NormalizeSpaces(trimStart(Tail(s)))
    ELSE <<Head(s)>> \o NormalizeSpaces(Tail(s))

\* the quiz title: the cleaned filename, title || 'Quiz' at the createQuiz call
QuizTitle(filename) ==
    LET title == trim(NormalizeSpaces(DashesToSpaces(RemoveExtension(filename))))
    IN  IF title = <<>> THEN <<"Q", "u", "i", "z">> ELSE title

PostFail(error, status) ==
    [success |-> FALSE, error |-> error, status |-> status,
     quizId |-> 0, title |-> <<>>, questionCount |-> 0]

PostOk(quiz, questionCount) ==
    [success |-> TRUE, error |-> Undefined, status |-> 200,
     quizId |-> quiz.id, title |-> quiz.title, questionCount |-> questionCount]

\* a handler whose catch lets the exception go
PostCatch_Escapes(message) == <<>>

\* the catch of POST: the message of the Error that was thrown, status 500
PostCatch(message) == <<PostFail(message, 500)>>

\* the row createQuiz inserts; the table assigns the id
QuizRow(id, body, generatedQuestions) ==
    [id |-> id,
     title |-> QuizTitle(body.filename),
     source_filename |-> body.filename,
     source_content |-> substring(body.content, 0, MaxStoredChars),
     question_type |-> body.questionType,
     total_questions |-> Len(generatedQuestions)]

\* questionsToSave
QuestionsToSave(quizId, generatedQuestions) ==
    [k \in 1..Len(generatedQuestions) |->
        [quiz_id |-> quizId,
         type |-> generatedQuestions[k].type,
         question_text |-> generatedQuestions[k].question_text,
         correct_answer |-> generatedQuestions[k].correct_answer,
         options |-> generatedQuestions[k].options,
         explanation |-> generatedQuestions[k].explanation,
         order_num |-> k]]

GenBody(content, filename, questionType, questionCount) ==
    [kind |-> "object", content |-> content, filename |-> filename,
     questionType |-> questionType, questionCount |-> questionCount]

\* a body that is no JSON, or the JSON value null
NoBody(kind) ==
    [kind |-> kind, content |-> <<>>, filename |-> <<>>,
     questionType |-> Undefined, questionCount |-> 0]

NotesName == <<"m", "y", "-", "n", "o", "t", "e", "s", "_", "1", ".", "p", "d", "f">>
BareExtension == <<".", "p", "d", "f">>

GenBodies ==
    { NoBody("malformed"), NoBody("null"),
      GenBody(<<"a", "b">>, NotesName, "multiple_choice", 1),
      GenBody(<<"a", "b">>, BareExtension, "mixed", MaxQuestionCount),
      GenBody(<<>>, NotesName, "mixed", 2),
      GenBody(<<"a", "b">>, <<>>, "mixed", 2),
      GenBody(<<"a", "b">>, NotesName, Undefined, 2),
      GenBody(<<"a", "b">>, NotesName, "mixed", 0),
      GenBody(<<"a", "b">>, NotesName, "mixed", -1),
      GenBody(<<"a", "b">>, NotesName, "mixed", MaxQuestionCount + 1),
      GenBody(<<>>, NotesName, "mixed", MaxQuestionCount + 1) }

PostInit ==
    /\ supabaseConfigured \in BOOLEAN
    /\ genRequest \in GenBodies
    /\ handlerPc = "start"
    /\ quizzes = <<>>
    /\ questionRows = <<>>
    /\ genResponse = <<>>
    /\ aiProvider = "groq"
    /\ apiKey \in {"", "secret"}
    /\ qType = "multiple_choice"
    /\ qCount = 1
    /\ genPc = "idle"
    /\ outbound = <<>>
    /\ responseText = <<>>
    /\ genResult = <<>>
    /\ consoleLog = <<>>
    /\ ExtractIdle
    /\ CallIdle
    /\ AppIdle

\* a handler without the range test
CountOutOfRange_Never(questionCount) == FALSE

\* if (questionCount < 1 || questionCount > 50)
CountOutOfRange(questionCount) ==
    questionCount < 1 \/ questionCount > MaxQuestionCount

\* POST up to the await of generateQuestions
PostValidate ==
    /\ handlerPc = "start"
    /\ LET body == genRequest
           reply(r) == /\ genResponse' = r
                       /\ handlerPc' = "done"
                       /\ UNCHANGED <<qType, qCount, genPc>>
       IN  IF ~supabaseConfigured
           THEN reply(<<PostFail("Database not configured. Please add Supabase credentials to .env.local", 500)>>)
           ELSE IF body.kind = "malformed"
           THEN reply(PostCatch("Unexpected end of JSON input"))
           ELSE IF body.kind = "null"
           THEN reply(PostCatch("Cannot destructure property 'content' of 'body' as it is null."))
           ELSE IF \/ body.content = <<>>
                   \/ body.filename = <<>>
                   \/ body.questionType \in {Undefined, ""}
                   \/ body.questionCount = 0
           THEN reply(<<PostFail("Missing required fields", 400)>>)
           ELSE IF CountOutOfRange(body.questionCount)
           THEN reply(<<PostFail("Question count must be between 1 and 50", 400)>>)
           ELSE /\ qType' = body.questionType
                /\ qCount' = body.questionCount
                /\ genPc' = "start"
                /\ handlerPc' = "generating"
                /\ genResponse' = genResponse
    /\ UNCHANGED <<supabaseConfigured, genRequest, quizzes, questionRows>>
    /\ UNCHANGED <<aiProvider, apiKey, outbound, responseText, genResult, consoleLog>>
    /\ UNCHANGED <<extractVars, callVars, appVars>>

\* a handler that takes every list it gets
NoQuestions_Never(generatedQuestions) == FALSE

\* if (!generatedQuestions || generatedQuestions.length === 0)
NoQuestions(generatedQuestions) == Len(generatedQuestions) = 0

\* POST after generateQuestions settled, up to the await of createQuiz and
\* the test of what it returned
PostCreateQuiz ==
    /\ handlerPc = "generating"
    /\ genPc = "done"
    /\ LET g == genResult[1]
       IN  IF ~g.ok
           THEN /\ genResponse' = PostCatch(g.error)
                /\ handlerPc' = "done"
                /\ quizzes' = quizzes
           ELSE IF NoQuestions(g.questions)
           THEN /\ genResponse' =
                     <<PostFail("Failed to generate questions. Please try again.", 500)>>
                /\ handlerPc' = "done"
                /\ quizzes' = quizzes
           ELSE \E inserted \in BOOLEAN :
                  IF inserted
                  THEN /\ quizzes' = Append(quizzes,
                                            QuizRow(Len(quizzes) + 1, genRequest, g.questions))
                       /\ handlerPc' = "save_questions"
                       /\ genResponse' = genResponse
                  ELSE /\ genResponse' = <<PostFail("Failed to save quiz to database", 500)>>
                       /\ handlerPc' = "done"
                       /\ quizzes' = quizzes
    /\ UNCHANGED <<supabaseConfigured, genRequest, questionRows>>
    /\ UNCHANGED <<synthVars, extractVars, callVars, appVars>>

\* the await of createQuestions, whose result is not looked at, and the
\* success response
PostCreateQuestions ==
    /\ handlerPc = "save_questions"
    /\ LET quiz == quizzes[Len(quizzes)]
           generatedQuestions == genResult[1].questions
       IN  /\ \E inserted \in BOOLEAN :
                questionRows' = IF inserted
                                THEN questionRows \o QuestionsToSave(quiz.id, generatedQuestions)
                                ELSE questionRows
           /\ genResponse' = <<PostOk(quiz, Len(generatedQuestions))>>
    /\ handlerPc' = "done"
    /\ UNCHANGED <<supabaseConfigured, genRequest, quizzes>>
    /\ UNCHANGED <<synthVars, extractVars, callVars, appVars>>

PostNext ==
    \/ PostValidate
    \/ GenerateStart
    \/ GenerateCallFails
    \/ GenerateReceive
    \/ PostCreateQuiz
    \/ PostCreateQuestions

SpecGenerate == PostInit /\ [][PostNext]_vars

\* either handler serving one request
HandlersNext ==
    \/ ExtractNext
    \/ PostNext

SpecHandlers == (ExtractInit \/ PostInit) /\ [][HandlersNext]_vars

\* ------------------------------------------------------------------------
\* buildPrompt called directly: one provider, selector and count, two contents
\* ------------------------------------------------------------------------
LongContent == [i \in 1..MaxPromptChars |-> "a"]

PromptContents ==
    { <<"a", "b">>,
      LongContent,
      LongContent \o <<"b">>,
      LongContent \o <<"c">> }

PromptInit ==
    /\ callPc = "called"
    /\ callArgs \in [ provider : Providers,
                      first : PromptContents,
                      second : PromptContents,
                      type : QuestionTypes,
                      count : 1..MaxQuestionCount ]
    /\ callResult = <<>>
    /\ ExtractIdle
    /\ SynthIdle
    /\ HandlerIdle
    /\ AppIdle

BuildPrompts ==
    /\ callPc = "called"
    /\ callResult' = << buildPrompt(callArgs.provider, callArgs.first,
                                    callArgs.type, callArgs.count),
                        buildPrompt(callArgs.provider, callArgs.second,
                                    callArgs.type, callArgs.count) >>
    /\ callPc' = "returned"
    /\ UNCHANGED <<callArgs, extractVars, synthVars, handlerVars, appVars>>

SpecPrompt == PromptInit /\ [][BuildPrompts]_vars

\* ------------------------------------------------------------------------
\* parseQuestionsFromResponse called directly on one JSON array text in its
\* wrappings
\* ------------------------------------------------------------------------
\* whitespace around a completion text and between a fence marker and the body
Paddings == { <<>>, <<" ">>, <<"\n">>, <<"\t", "\n">> }
FenceGaps == { <<>>, <<"\n">> }

FencedJson(body, gap) == L_FENCE_JSON \o gap \o body \o gap \o L_FENCE
FencedBare(body, gap) == L_FENCE \o gap \o body \o gap \o L_FENCE

FenceInit ==
    /\ callPc = "called"
    /\ callArgs \in [ json : JsonArrayTexts,
                      type : QuestionTypes,
                      lead : Paddings,
                      trail : Paddings,
                      gap : FenceGaps ]
    /\ callResult = <<>>
    /\ ExtractIdle
    /\ SynthIdle
    /\ HandlerIdle
    /\ AppIdle

ParseWrapped ==
    /\ callPc = "called"
    /\ LET pad(text) == callArgs.lead \o text \o callArgs.trail
       IN  callResult' =
             [ plain      |-> parseQuestionsFromResponse(callArgs.json, callArgs.type),
               padded     |-> parseQuestionsFromResponse(pad(callArgs.json), callArgs.type),
               fencedJson |-> parseQuestionsFromResponse(
                                pad(FencedJson(callArgs.json, callArgs.gap)), callArgs.type),
               fencedBare |-> parseQuestionsFromResponse(
                                pad(FencedBare(callArgs.json, callArgs.gap)), callArgs.type) ]
    /\ callPc' = "returned"
    /\ UNCHANGED <<callArgs, extractVars, synthVars, handlerVars, appVars>>

SpecFence == FenceInit /\ [][ParseWrapped]_vars

\* ------------------------------------------------------------------------
\* cleanPDFText called directly on one extracted text
\* ------------------------------------------------------------------------
TextChars == {"a", " ", "\t", "\n", "\r"}

RawTexts == UNION { [1..n -> TextChars] : n \in 0..MaxTextLen }

CleanInit ==
    /\ callPc = "called"
    /\ callArgs \in RawTexts
    /\ callResult = <<>>
    /\ ExtractIdle
    /\ SynthIdle
    /\ HandlerIdle
    /\ AppIdle

CleanText ==
    /\ callPc = "called"
    /\ callResult' = cleanPDFText(callArgs)
    /\ callPc' = "returned"
    /\ UNCHANGED <<callArgs, extractVars, synthVars, handlerVars, appVars>>

SpecClean == CleanInit /\ [][CleanText]_vars

\* ------------------------------------------------------------------------
\* extractTextFromSlideXml called directly on one slide payload
\* ------------------------------------------------------------------------
\* a slide payload is a run of text elements, each in the primary tag <a:t>
\* or in the fallback tag <t>
TagTexts == { <<"x">>, <<"y">>, <<" ", "x">>, <<>> }

TagRuns ==
    UNION { [1..n -> [tag : {"a:t", "t"}, text : TagTexts]] : n \in 0..MaxTags }

RECURSIVE XmlOf(_)
XmlOf(run) ==
    IF run = <<>> THEN <<>>
    ELSE (IF Head(run).tag = "a:t" THEN ATag(Head(run).text) ELSE TTag(Head(run).text))
         \o XmlOf(Tail(run))

SlideXmlInit ==
    /\ callPc = "called"
    /\ callArgs \in TagRuns
    /\ callResult = <<>>
    /\ ExtractIdle
    /\ SynthIdle
    /\ HandlerIdle
    /\ AppIdle

ExtractSlideText ==
    /\ callPc = "called"
    /\ callResult' = [ textParts |-> TextParts(XmlOf(callArgs)),
                       text |-> extractTextFromSlideXml(XmlOf(callArgs)) ]
    /\ callPc' = "returned"
    /\ UNCHANGED <<callArgs, extractVars, synthVars, handlerVars, appVars>>

SpecSlideXml == SlideXmlInit /\ [][ExtractSlideText]_vars

\* ------------------------------------------------------------------------
\* app/page.tsx and the configure page: the flow from upload to generation
\* ------------------------------------------------------------------------
\* the files the user can choose, by name, and what the upload route extracts
\* from each
PageFiles == {"a.pdf", "b.pptx"}

ExtractedFrom(file) == "text of " \o file

\* what POST /api/upload can come back with: a success body, a failure body,
\* or fetch / response.json() throwing
UploadOutcomes(file) ==
    { [threw |-> FALSE, ok |-> TRUE, success |-> TRUE,
       content |-> ExtractedFrom(file)],
      [threw |-> FALSE, ok |-> FALSE, success |-> FALSE, content |-> Undefined],
      [threw |-> FALSE, ok |-> TRUE, success |-> FALSE, content |-> Undefined],
      [threw |-> TRUE, ok |-> FALSE, success |-> FALSE, content |-> Undefined] }

\* a page that takes every response for a success
UploadRejected_Never(data) == FALSE

\* if (!response.ok || !data.success), and the throw of fetch itself
UploadRejected(data) == data.threw \/ ~data.ok \/ ~data.success

\* JSON.parse(JSON.stringify({ filename, content, metadata })): a member
\* whose value is undefined is left out and reads as undefined again
StoredItem(filename, content) == [filename |-> filename, content |-> content]

Sent(kind, filename, content) ==
    [kind |-> kind, filename |-> filename, content |-> content]

PagesInit ==
    /\ route = "/"
    /\ selectedFile = <<>>
    /\ isUploading = FALSE
    /\ uploadedContent = <<>>
    /\ uploadedData = <<>>
    /\ effectRan = FALSE
    /\ isGenerating = FALSE
    /\ inflight = <<>>
    /\ netLog = <<>>
    /\ ExtractIdle
    /\ SynthIdle
    /\ CallIdle
    /\ HandlerIdle
    /\ SubmitIdle
    /\ QuizIdle
    /\ NotesIdle

\* the user opens a page by its address; the page component mounts afresh
OpenPage ==
    /\ \E target \in {"/", "/configure"} : route' = target
    /\ selectedFile' = <<>>
    /\ isUploading' = FALSE
    /\ uploadedData' = <<>>
    /\ effectRan' = FALSE
    /\ isGenerating' = FALSE
    /\ UNCHANGED <<uploadedContent, inflight, netLog>>
    /\ UNCHANGED <<extractVars, synthVars, callVars, handlerVars, submitVars, quizVars,
                   noteVars>>

\* HomePage.handleFileSelect
HandleFileSelect ==
    /\ route = "/"
    /\ \E file \in PageFiles : selectedFile' = <<file>>
    /\ UNCHANGED <<route, isUploading, uploadedContent, uploadedData, effectRan,
                   isGenerating, inflight, netLog>>
    /\ UNCHANGED <<extractVars, synthVars, callVars, handlerVars, submitVars, quizVars,
                   noteVars>>

\* HomePage.handleContinue up to the await of fetch; the button is rendered
\* once a file is selected and is disabled while isUploading
HandleContinue ==
    /\ route = "/"
    /\ selectedFile # <<>>
    /\ ~isUploading
    /\ Len(netLog) < MaxEvents
    /\ isUploading' = TRUE
    /\ inflight' = Append(inflight, Sent("upload", selectedFile[1], Undefined))
    /\ netLog' = Append(netLog, Sent("upload", selectedFile[1], Undefined))
    /\ UNCHANGED <<route, selectedFile, uploadedContent, uploadedData, effectRan,
                   isGenerating>>
    /\ UNCHANGED <<extractVars, synthVars, callVars, handlerVars, submitVars, quizVars,
                   noteVars>>

Remove(seq, k) == SubSeq(seq, 1, k - 1) \o SubSeq(seq, k + 1, Len(seq))

\* HomePage.handleContinue after the await: the test of the response,
\* sessionStorage.setItem and router.push, or the catch; then the finally
UploadSettles ==
    /\ \E k \in 1..Len(inflight) :
         /\ inflight[k].kind = "upload"
         /\ \E data \in UploadOutcomes(inflight[k].filename) :
              /\ netLog' = Append(netLog,
                                  Sent(IF ~data.threw /\ data.ok /\ data.success
                                       THEN "upload succeeded" ELSE "upload failed",
                                       inflight[k].filename, data.content))
              /\ IF UploadRejected(data)
                 THEN UNCHANGED <<uploadedContent, route, uploadedData, effectRan,
                                  isGenerating, selectedFile>>
                 ELSE /\ uploadedContent' =
                           <<StoredItem(inflight[k].filename, data.content)>>
                      /\ route' = "/configure"
                      /\ uploadedData' = <<>>
                      /\ effectRan' = FALSE
                      /\ isGenerating' = FALSE
                      /\ selectedFile' = <<>>
         /\ inflight' = Remove(inflight, k)
    /\ isUploading' = FALSE
    /\ UNCHANGED <<extractVars, synthVars, callVars, handlerVars, submitVars, quizVars,
                   noteVars>>

\* ConfigurePage: the effect that reads sessionStorage after the mount
ConfigureLoad ==
    /\ route = "/configure"
    /\ ~effectRan
    /\ effectRan' = TRUE
    /\ IF uploadedContent # <<>>
       THEN /\ uploadedData' = uploadedContent
            /\ route' = route
       ELSE /\ route' = "/"
            /\ uploadedData' = uploadedData
    /\ UNCHANGED <<selectedFile, isUploading, uploadedContent, isGenerating,
                   inflight, netLog>>
    /\ UNCHANGED <<extractVars, synthVars, callVars, handlerVars, submitVars, quizVars,
                   noteVars>>

\* ConfigurePage.handleGenerate up to the await of fetch; the button is
\* rendered once uploadedData is set and is disabled while isGenerating
HandleGenerate ==
    /\ route = "/configure"
    /\ uploadedData # <<>>
    /\ ~isGenerating
    /\ Len(netLog) < MaxEvents
    /\ isGenerating' = TRUE
    /\ LET body == Sent("generate", uploadedData[1].filename, uploadedData[1].content)
       IN  /\ inflight' = Append(inflight, body)
           /\ netLog' = Append(netLog, body)
    /\ UNCHANGED <<route, selectedFile, isUploading, uploadedContent, uploadedData,
                   effectRan>>
    /\ UNCHANGED <<extractVars, synthVars, callVars, handlerVars, submitVars, quizVars,
                   noteVars>>

\* ConfigurePage.handleGenerate after the await
GenerateSettles ==
    /\ \E k \in 1..Len(inflight) :
         /\ inflight[k].kind = "generate"
         /\ \E success \in BOOLEAN :
              IF success
              THEN /\ uploadedContent' = <<>>
                   /\ route' = "/quiz"
              ELSE UNCHANGED <<uploadedContent, route>>
         /\ inflight' = Remove(inflight, k)
    /\ isGenerating' = FALSE
    /\ UNCHANGED <<selectedFile, isUploading, uploadedData, effectRan, netLog>>
    /\ UNCHANGED <<extractVars, synthVars, callVars, handlerVars, submitVars, quizVars,
                   noteVars>>

PagesNext ==
    \/ OpenPage
    \/ HandleFileSelect
    \/ HandleContinue
    \/ UploadSettles
    \/ ConfigureLoad
    \/ HandleGenerate
    \/ GenerateSettles

SpecPages == PagesInit /\ [][PagesNext]_vars

\* ------------------------------------------------------------------------
\* POST /api/quiz/[id]/submit
\* ------------------------------------------------------------------------
\* the characters of the answers the completion pool gives
CharsOf(answer) ==
    CASE answer = "MOHO" -> <<"M", "O", "H", "O">>
      [] answer = "True" -> <<"T", "r", "u", "e">>
      [] answer = "Biomechanical" -> <<"B", "i", "o">>
      [] answer = "Self care" -> <<"S", "e", "l", "f", " ", "c", "a", "r", "e">>
      [] answer = "Rood" -> <<"R", "o", "o", "d">>
      [] OTHER -> <<>>

\* the values of the completion the stored quizzes are made of
StoredUnits == {"mc", "id", "empty"}

\* the question lists generateQuestions can hand to the generate handler for a
\* request of type mixed: parsed arrays of 1..MaxStored values
StorableLists ==
    { MapQuestions([i \in 1..Len(units) |-> JsonValues[units[i]]], "mixed") :
        units \in UNION { [1..n -> StoredUnits] : n \in 1..MaxStored } }

SubmittedQuizBody == GenBody(<<"a", "b">>, NotesName, "mixed", MaxStored)

\* one value of the answers object
AnswerString(text) == [kind |-> "string", text |-> text]
AnswerNumber == [kind |-> "number", text |-> <<>>]

\* per question id: no member, or a member with one of these values
AnswerOptions ==
    { <<>>, <<AnswerString(<<>>)>>, <<AnswerString(<<" ", "m", "o", "H", "O">>)>>,
      <<AnswerString(<<"x">>)>>, <<AnswerNumber>> }

SubmitBody(quizId, kind, answers) ==
    [quizId |-> quizId, kind |-> kind, answers |-> answers]

NoAnswers == [k \in 1..MaxStored |-> <<>>]

SubmitBodies ==
    { SubmitBody(1, "malformed", NoAnswers), SubmitBody(1, "no answers", NoAnswers),
      SubmitBody(2, "object", NoAnswers) }
    \cup { SubmitBody(1, "object", answers) : answers \in [1..MaxStored -> AnswerOptions] }

\* the id the questions table gives a row: rows of one quiz are told apart
\* by their position
RowId(question) == question.order_num

SubmitInit ==
    /\ supabaseConfigured \in BOOLEAN
    /\ \E generatedQuestions \in StorableLists :
         /\ quizzes = <<QuizRow(1, SubmittedQuizBody, generatedQuestions)>>
         /\ questionRows \in {QuestionsToSave(1, generatedQuestions), <<>>}
    /\ submission \in SubmitBodies
    /\ submitPc = "start"
    /\ scored = <<>>
    /\ attempts = <<>>
    /\ submitResponse = <<>>
    /\ genRequest = <<>>
    /\ handlerPc = "idle"
    /\ genResponse = <<>>
    /\ ExtractIdle
    /\ SynthIdle
    /\ CallIdle
    /\ PagesIdle
    /\ QuizIdle
    /\ NotesIdle

SubmitFail(error, status) ==
    [success |-> FALSE, error |-> error, status |-> status, score |-> 0, total |-> 0,
     percentage |-> 0, correctAnswers |-> <<>>]

\* the configuration test, request.json() and the test of answers
SubmitValidate ==
    /\ submitPc = "start"
    /\ IF ~supabaseConfigured
       THEN /\ submitResponse' = <<SubmitFail("Database not configured", 500)>>
            /\ submitPc' = "done"
       ELSE IF submission.kind = "malformed"
       THEN /\ submitResponse' = <<SubmitFail("Unexpected token", 500)>>
            /\ submitPc' = "done"
       ELSE IF submission.kind = "no answers"
       THEN /\ submitResponse' = <<SubmitFail("Answers are required", 400)>>
            /\ submitPc' = "done"
       ELSE /\ submitResponse' = submitResponse
            /\ submitPc' = "load"
    /\ UNCHANGED <<submission, scored, attempts>>
    /\ UNCHANGED <<extractVars, synthVars, callVars, handlerVars, pageVars, quizVars,
                   noteVars>>

\* answers[question.id]?.toLowerCase().trim() || ''
UserAnswer(answers, question) ==
    IF answers[RowId(question)] = <<>> THEN <<>>
    ELSE trim(toLowerCase(answers[RowId(question)][1].text))

\* question.correct_answer.toLowerCase().trim()
CorrectAnswer(question) == trim(toLowerCase(CharsOf(question.correct_answer)))

\* toLowerCase is not a function of a value that is no string
AnswerThrows(answers, questions) ==
    \E k \in 1..Len(questions) :
        /\ answers[RowId(questions[k])] # <<>>
        /\ answers[RowId(questions[k])][1].kind # "string"

\* the loop over the questions
RECURSIVE Score(_, _)
Score(answers, questions) ==
    IF questions = <<>> THEN 0
    ELSE (IF UserAnswer(answers, Head(questions)) = CorrectAnswer(Head(questions))
          THEN 1 ELSE 0)
         + Score(answers, Tail(questions))

\* Math.round((score / total) * 100)
Percentage(score, total) == (200 * score + total) \div (2 * total)

\* getQuiz and getQuestionsByQuizId, either of which comes back empty when
\* its query fails, the test of what they found, and the loop
SubmitLoad ==
    /\ submitPc = "load"
    /\ \E quizRead \in BOOLEAN, questionsRead \in BOOLEAN :
         LET quiz == IF quizRead
                     THEN SelectSeq(quizzes, LAMBDA q : q.id = submission.quizId)
                     ELSE <<>>
             questions == IF questionsRead
                          THEN SelectSeq(questionRows,
                                         LAMBDA q : q.quiz_id = submission.quizId)
                          ELSE <<>>
         IN  IF quiz = <<>> \/ Len(questions) = 0
             THEN /\ submitResponse' = <<SubmitFail("Quiz not found", 404)>>
                  /\ submitPc' = "done"
                  /\ scored' = scored
             ELSE IF AnswerThrows(submission.answers, questions)
             THEN /\ submitResponse' = <<SubmitFail("toLowerCase is not a function", 500)>>
                  /\ submitPc' = "done"
                  /\ scored' = scored
             ELSE /\ scored' = <<[score |-> Score(submission.answers, questions),
                                   total |-> Len(questions),
                                   correctAnswers |->
                                       [k \in 1..Len(questions) |->
                                           questions[k].correct_answer]]>>
                  /\ submitPc' = "save"
                  /\ submitResponse' = submitResponse
    /\ UNCHANGED <<submission, attempts>>
    /\ UNCHANGED <<extractVars, synthVars, callVars, handlerVars, pageVars, quizVars,
                   noteVars>>

\* createAttempt and the response
SubmitSave ==
    /\ submitPc = "save"
    /\ \E inserted \in BOOLEAN :
         IF inserted
         THEN /\ attempts' = Append(attempts,
                                    [id |-> Len(attempts) + 1,
                                     quiz_id |-> submission.quizId,
                                     score |-> scored[1].score,
                                     total |-> scored[1].total])
              /\ submitResponse' =
                    <<[success |-> TRUE, error |-> Undefined, status |-> 200,
                       score |-> scored[1].score, total |-> scored[1].total,
                       percentage |-> Percentage(scored[1].score, scored[1].total),
                       correctAnswers |-> scored[1].correctAnswers]>>
         ELSE /\ attempts' = attempts
              /\ submitResponse' = <<SubmitFail("Failed to save attempt", 500)>>
    /\ submitPc' = "done"
    /\ UNCHANGED <<submission, scored>>
    /\ UNCHANGED <<extractVars, synthVars, callVars, handlerVars, pageVars, quizVars,
                   noteVars>>

SubmitNext ==
    \/ SubmitValidate
    \/ SubmitLoad
    \/ SubmitSave

SpecSubmit == SubmitInit /\ [][SubmitNext]_vars

\* ------------------------------------------------------------------------
\* QuizPage and QuestionCard: answering a quiz
\* ------------------------------------------------------------------------
\* what the user can type into the text input
TypedValues == {"", "a"}

QuizInit ==
    /\ supabaseConfigured \in BOOLEAN
    /\ \E generatedQuestions \in StorableLists :
         /\ quizzes = <<QuizRow(1, SubmittedQuizBody, generatedQuestions)>>
         /\ questionRows \in {QuestionsToSave(1, generatedQuestions), <<>>}
    /\ pageQuiz = <<>>
    /\ isLoading = TRUE
    /\ currentIndex = 0
    /\ pageAnswers = [k \in 1..MaxStored |-> <<>>]
    /\ inputValue = ""
    /\ isSubmitting = FALSE
    /\ quizError = FALSE
    /\ submitted = <<>>
    /\ genRequest = <<>>
    /\ handlerPc = "idle"
    /\ genResponse = <<>>
    /\ ExtractIdle
    /\ SynthIdle
    /\ CallIdle
    /\ PagesIdle
    /\ SubmitIdle
    /\ NotesIdle

\* quiz?.questions.length || 0
totalQuestions == IF pageQuiz = <<>> THEN 0 ELSE Len(pageQuiz[1].questions)

\* Object.keys(answers).length
answeredCount == Cardinality({k \in DOMAIN pageAnswers : pageAnswers[k] # <<>>})

\* the page shows the quiz: it is past the loading and the error return
QuizShown ==
    /\ ~isLoading
    /\ ~quizError
    /\ pageQuiz # <<>>
    /\ currentIndex + 1 \in 1..totalQuestions

\* quiz?.questions[currentIndex]
currentQuestion == pageQuiz[1].questions[currentIndex + 1]

\* the effect that fetches the quiz, with GET /api/quiz/[id] answering it
FetchQuiz ==
    /\ isLoading
    /\ \E quizRead \in BOOLEAN, questionsRead \in BOOLEAN :
         IF supabaseConfigured /\ quizRead
         THEN /\ pageQuiz' = <<[id |-> quizzes[1].id, title |-> quizzes[1].title,
                            questions |-> IF questionsRead THEN questionRows ELSE <<>>]>>
              /\ quizError' = quizError
         ELSE /\ quizError' = TRUE
              /\ pageQuiz' = pageQuiz
    /\ isLoading' = FALSE
    /\ UNCHANGED <<currentIndex, pageAnswers, inputValue, isSubmitting, submitted>>
    /\ UNCHANGED <<extractVars, synthVars, callVars, handlerVars, pageVars, submitVars,
                   noteVars>>

\* handleAnswerSelect
Record(answer) == [pageAnswers EXCEPT ![RowId(currentQuestion)] = <<answer>>]

\* a click on an option button of a question that is no identification
HandleOptionClick ==
    /\ QuizShown
    /\ currentQuestion.type # "identification"
    /\ currentQuestion.options # <<>>
    /\ \E i \in 1..Len(currentQuestion.options[1]) :
         pageAnswers' = Record(currentQuestion.options[1][i])
    /\ UNCHANGED <<pageQuiz, isLoading, currentIndex, inputValue, isSubmitting, quizError,
                   submitted>>
    /\ UNCHANGED <<extractVars, synthVars, callVars, handlerVars, pageVars, submitVars,
                   noteVars>>

\* QuestionCard.handleInputChange: the change event of the text input
HandleInputChange ==
    /\ QuizShown
    /\ currentQuestion.type = "identification"
    /\ \E value \in TypedValues \ {inputValue} :
         /\ inputValue' = value
         /\ pageAnswers' = Record(value)
    /\ UNCHANGED <<pageQuiz, isLoading, currentIndex, isSubmitting, quizError, submitted>>
    /\ UNCHANGED <<extractVars, synthVars, callVars, handlerVars, pageVars, submitVars,
                   noteVars>>

\* handleNext; the button is shown on every question but the last
HandleNext ==
    /\ QuizShown
    /\ currentIndex # totalQuestions - 1
    /\ currentIndex' = IF currentIndex < totalQuestions - 1
                       THEN currentIndex + 1 ELSE currentIndex
    /\ UNCHANGED <<pageQuiz, isLoading, pageAnswers, inputValue, isSubmitting, quizError,
                   submitted>>
    /\ UNCHANGED <<extractVars, synthVars, callVars, handlerVars, pageVars, submitVars,
                   noteVars>>

\* handlePrevious; the button is disabled on the first question
HandlePrevious ==
    /\ QuizShown
    /\ currentIndex # 0
    /\ currentIndex' = IF currentIndex > 0 THEN currentIndex - 1 ELSE currentIndex
    /\ UNCHANGED <<pageQuiz, isLoading, pageAnswers, inputValue, isSubmitting, quizError,
                   submitted>>
    /\ UNCHANGED <<extractVars, synthVars, callVars, handlerVars, pageVars, submitVars,
                   noteVars>>

\* a click on one of the dots: setCurrentIndex(index)
HandleDot ==
    /\ QuizShown
    /\ \E index \in 0..(totalQuestions - 1) : currentIndex' = index
    /\ UNCHANGED <<pageQuiz, isLoading, pageAnswers, inputValue, isSubmitting, quizError,
                   submitted>>
    /\ UNCHANGED <<extractVars, synthVars, callVars, handlerVars, pageVars, submitVars,
                   noteVars>>

\* the submit button is shown on the last question, disabled while
\* answeredCount < totalQuestions or isSubmitting
SubmitEnabled ==
    /\ QuizShown
    /\ currentIndex = totalQuestions - 1
    /\ ~(answeredCount < totalQuestions)
    /\ ~isSubmitting

\* handleSubmit up to the await of fetch
HandleSubmit ==
    /\ SubmitEnabled
    /\ isSubmitting' = TRUE
    /\ submitted' = <<pageAnswers>>
    /\ UNCHANGED <<pageQuiz, isLoading, currentIndex, pageAnswers, inputValue, quizError>>
    /\ UNCHANGED <<extractVars, synthVars, callVars, handlerVars, pageVars, submitVars,
                   noteVars>>

\* handleSubmit after the await: router.push to the results, or the catch
QuizSubmitSettles ==
    /\ isSubmitting
    /\ \E success \in BOOLEAN :
         IF success
         THEN /\ route' = "/results"
              /\ quizError' = quizError
         ELSE /\ quizError' = TRUE
              /\ route' = route
    /\ isSubmitting' = FALSE
    /\ submitted' = <<>>
    /\ UNCHANGED <<pageQuiz, isLoading, currentIndex, pageAnswers, inputValue>>
    /\ UNCHANGED <<selectedFile, isUploading, uploadedContent, uploadedData, effectRan,
                   isGenerating, inflight, netLog>>
    /\ UNCHANGED <<extractVars, synthVars, callVars, handlerVars, submitVars, noteVars>>

QuizNext ==
    \/ FetchQuiz
    \/ HandleOptionClick
    \/ HandleInputChange
    \/ HandleNext
    \/ HandlePrevious
    \/ HandleDot
    \/ HandleSubmit
    \/ QuizSubmitSettles

SpecQuiz == QuizInit /\ [][QuizNext]_vars

\* ------------------------------------------------------------------------
\* POST /api/notes and createOrUpdateStudyNote
\* ------------------------------------------------------------------------
Callers == 1..NumCallers

NoteBody(questionId, quizId, noteText) ==
    [questionId |-> questionId, quizId |-> quizId, noteText |-> noteText]

\* the bodies of the requests: question "q1" or "q2" of quiz "z1", a text or
\* the empty string
NoteBodies ==
    { NoteBody(questionId, "z1", noteText) :
        questionId \in {"q1", "q2"}, noteText \in {"first", "second", ""} }

NoteRow(questionId, quizId, noteText) ==
    [question_id |-> questionId, quiz_id |-> quizId, note_text |-> noteText]

NotesInit ==
    /\ supabaseConfigured \in BOOLEAN
    /\ studyNotes \in {<<>>, <<NoteRow("q1", "z1", "old")>>}
    /\ noteRequest \in [Callers -> NoteBodies]
    /\ notePc = [c \in Callers |-> "start"]
    /\ existing = [c \in Callers |-> FALSE]
    /\ noteResponse = [c \in Callers |-> <<>>]
    /\ genRequest = <<>>
    /\ handlerPc = "idle"
    /\ quizzes = <<>>
    /\ questionRows = <<>>
    /\ genResponse = <<>>
    /\ ExtractIdle
    /\ SynthIdle
    /\ CallIdle
    /\ PagesIdle
    /\ SubmitIdle
    /\ QuizIdle

NoteFail(error, status) ==
    [success |-> FALSE, error |-> error, status |-> status, note |-> <<>>]

NoteOk(note) == [success |-> TRUE, error |-> Undefined, status |-> 200, note |-> <<note>>]

\* the rows of the table for a question
HasNote(questionId) ==
    \E k \in 1..Len(studyNotes) : studyNotes[k].question_id = questionId

\* POST: the configuration test, request.json() and the required fields
NotePostValidate(c) ==
    /\ notePc[c] = "start"
    /\ IF ~supabaseConfigured
       THEN /\ noteResponse' = [noteResponse EXCEPT ![c] =
                                    <<NoteFail("Database not configured", 500)>>]
            /\ notePc' = [notePc EXCEPT ![c] = "done"]
       ELSE IF \/ noteRequest[c].questionId = ""
               \/ noteRequest[c].quizId = ""
               \/ noteRequest[c].noteText = ""
       THEN /\ noteResponse' = [noteResponse EXCEPT ![c] =
                                    <<NoteFail("Missing required fields", 400)>>]
            /\ notePc' = [notePc EXCEPT ![c] = "done"]
       ELSE /\ noteResponse' = noteResponse
            /\ notePc' = [notePc EXCEPT ![c] = "select"]
    /\ UNCHANGED <<studyNotes, noteRequest, existing>>
    /\ UNCHANGED <<extractVars, synthVars, callVars, handlerVars, pageVars, submitVars,
                   quizVars>>

\* createOrUpdateStudyNote: the select of the id by question_id
NoteSelect(c) ==
    /\ notePc[c] = "select"
    /\ existing' = [existing EXCEPT ![c] = HasNote(noteRequest[c].questionId)]
    /\ notePc' = [notePc EXCEPT ![c] = "write"]
    /\ UNCHANGED <<studyNotes, noteRequest, noteResponse>>
    /\ UNCHANGED <<extractVars, synthVars, callVars, handlerVars, pageVars, submitVars,
                   quizVars>>

\* UNIQUE(question_id)
InsertRejected(questionId) == HasNote(questionId)

\* createOrUpdateStudyNote: the update or the insert, and the response of POST
NoteWrite(c) ==
    /\ notePc[c] = "write"
    /\ LET r == noteRequest[c]
           row == NoteRow(r.questionId, r.quizId, r.noteText)
       IN  IF existing[c]
           THEN \* update ... eq(question_id).select().single()
                /\ studyNotes' = [k \in 1..Len(studyNotes) |->
                                     IF studyNotes[k].question_id = r.questionId
                                     THEN [studyNotes[k] EXCEPT !.note_text = r.noteText]
                                     ELSE studyNotes[k]]
                /\ noteResponse' = [noteResponse EXCEPT ![c] =
                                        IF HasNote(r.questionId)
                                        THEN <<NoteOk(row)>>
                                        ELSE <<NoteFail("Failed to save note", 400)>>]
           ELSE IF InsertRejected(r.questionId)
           THEN /\ studyNotes' = studyNotes
                /\ noteResponse' = [noteResponse EXCEPT ![c] =
                                        <<NoteFail("Failed to save note", 400)>>]
           ELSE /\ studyNotes' = Append(studyNotes, row)
                /\ noteResponse' = [noteResponse EXCEPT ![c] = <<NoteOk(row)>>]
    /\ notePc' = [notePc EXCEPT ![c] = "done"]
    /\ UNCHANGED <<noteRequest, existing>>
    /\ UNCHANGED <<extractVars, synthVars, callVars, handlerVars, pageVars, submitVars,
                   quizVars>>

NotesNext ==
    \E c \in Callers :
        \/ NotePostValidate(c)
        \/ NoteSelect(c)
        \/ NoteWrite(c)

SpecNotes == NotesInit /\ [][NotesNext]_vars

\* ------------------------------------------------------------------------
\* Properties of the extractor
\* ------------------------------------------------------------------------
ParseReturned == result # <<>>
Responded == response # <<>>

\* C1: every result of parseFileBuffer with success=true has content that is
\* non-empty after trimming; every result with success=false has the empty
\* string as content and an error.
C1_ResultShape ==
    ParseReturned =>
        /\ result[1].success => trim(result[1].content) # <<>>
        /\ ~result[1].success =>
               /\ result[1].content = <<>>
               /\ result[1].error # Undefined

\* a PDF was parsed with success and its cleaned text is one character under
\* the floor of the upload handler
C1_Witness ==
    /\ ParseReturned
    /\ result[1].success
    /\ invoked = <<"parsePDF">>
    /\ Len(result[1].content) = MinContentLength - 1

\* the text after the last '.', lower-cased; no '.' means no extension
HasDot(name) == \E i \in 1..Len(name) : name[i] = "."

TextAfterLastDot(name) ==
    LET last == CHOOSE i \in 1..Len(name) :
                    name[i] = "." /\ \A j \in (i + 1)..Len(name) : name[j] # "."
    IN  toLowerCase(SubSeq(name, last + 1, Len(name)))

Dispatched == uploadPc \in {"pptx_load", "pptx_slides", "pdf_parse", "respond", "done"}
                 /\ (ParseReturned \/ invoked # <<>>)

\* C2: a filename whose extension (the lower-cased text after the last '.')
\* is not pptx, ppt or pdf is rejected with 'Unsupported file type' and no
\* strategy is invoked; pptx/ppt invoke exactly the slide strategy, pdf
\* exactly the PDF strategy.
C2_Routing ==
    Dispatched =>
        LET name == request.name
            ext == IF HasDot(name) THEN TextAfterLastDot(name) ELSE <<>>
        IN  IF HasDot(name) /\ ext \in {EXT_PPTX, EXT_PPT}
            THEN invoked = <<"parsePPTX">>
            ELSE IF HasDot(name) /\ ext = EXT_PDF
            THEN invoked = <<"parsePDF">>
            ELSE /\ invoked = <<>>
                 /\ result = <<ParseFail("Unsupported file type")>>

\* C3: the upload handler never answers success=true with content shorter
\* than 50 characters after trimming.
C3_ContentFloor ==
    Responded /\ response[1].success =>
        Len(trim(response[1].content)) >= MinContentLength

\* a slide deck whose content is exactly at the floor was accepted
C3_Witness ==
    /\ Responded
    /\ response[1].success
    /\ invoked = <<"parsePPTX">>
    /\ Len(response[1].content) = MinContentLength

\* the number N of the header '[Slide N]' a block begins with
BlockNumber(block) ==
    LET d == Len(L_HEADER) + 1
    IN  parseInt(SubSeq(block, d, FindChar(block, d, "]") - 1))

\* C4: the slide blocks are emitted in ascending numeric order of the slide
\* number, whatever the order in which the archive enumerates its entries.
C4_SlideOrder ==
    \A i, j \in 1..Len(slideContents) :
        i < j => BlockNumber(slideContents[i]) <= BlockNumber(slideContents[j])

\* the archive enumerated slide 10 before slide 2, and both were emitted
C4_Witness ==
    /\ \E i, j \in 1..Len(zip) :
         /\ i < j
         /\ zip[i].path = SlidePathOf(<<"1", "0">>)
         /\ zip[j].path = SlidePathOf(<<"2">>)
    /\ \E i, j \in 1..Len(slideContents) :
         /\ BlockNumber(slideContents[i]) = 2
         /\ BlockNumber(slideContents[j]) = 10

\* the slide entries of the archive whose extracted text is not blank
TextSlides(archive) ==
    { i \in 1..Len(archive) :
        /\ IsSlidePath(archive[i].path)
        /\ trim(extractTextFromSlideXml(archive[i].xml)) # <<>> }

EntryNumber(entry) ==
    LET d == FindChar(entry.path, Len(L_SLIDE_DIR), "e") + 1
    IN  SubSeq(entry.path, d, Len(entry.path) - Len(L_XML))

\* C5: the content of parsePPTX is one block per slide with non-blank text,
\* each block beginning with '[Slide N]' for that slide's number N, the
\* blocks separated by exactly one blank line; slides without text
\* contribute nothing.
C5_BlockLayout ==
    (ParseReturned /\ result[1].success /\ invoked = <<"parsePPTX">>) =>
        LET S == TextSlides(zip)
            n == Cardinality(S)
        IN  \E ord \in [1..n -> S] :
              /\ \A a, b \in 1..n :
                   a < b => parseInt(EntryNumber(zip[ord[a]])) < parseInt(EntryNumber(zip[ord[b]]))
              /\ result[1].content =
                   join([k \in 1..n |->
                           L_HEADER \o EntryNumber(zip[ord[k]]) \o <<"]", "\n">>
                           \o extractTextFromSlideXml(zip[ord[k]].xml)],
                        <<"\n", "\n">>)

\* two slides with text and one without were parsed with success
C5_Witness ==
    /\ ParseReturned
    /\ result[1].success
    /\ invoked = <<"parsePPTX">>
    /\ Len(slideFiles) = 3
    /\ Len(slideContents) = 2

\* C6: on success metadata.slideCount is the number of slide entries of the
\* archive, slides without text included.
C6_SlideCount ==
    (ParseReturned /\ result[1].success /\ invoked = <<"parsePPTX">>) =>
        result[1].metadata.slideCount =
            Cardinality({ i \in 1..Len(zip) : IsSlidePath(zip[i].path) })

\* the count exceeds the number of '[Slide N]' blocks of the content
C6_Witness ==
    /\ ParseReturned
    /\ result[1].success
    /\ invoked = <<"parsePPTX">>
    /\ result[1].metadata.slideCount > Len(slideContents)

\* ------------------------------------------------------------------------
\* Properties of the synthesizer
\* ------------------------------------------------------------------------
GenDone == genPc = "done" /\ genResult # <<>>

\* C7: the list returned by generateQuestions never holds more questions
\* than were requested.
C7_AtMostCount ==
    (GenDone /\ genResult[1].ok) => Len(genResult[1].questions) <= qCount

\* an object of the response with question_text and correct_answer strings
WellFormed(e) ==
    /\ e.kind = "object"
    /\ e.question_text \notin {Undefined, ""}
    /\ e.correct_answer \notin {Undefined, ""}

\* the array the fence-stripped response text denotes
ResponseArray == JSONparse(StripFences(responseText[1]))

FewerWellFormed ==
    /\ responseText # <<>>
    /\ ResponseArray.ok
    /\ ResponseArray.isArray
    /\ \A i \in 1..Len(ResponseArray.elems) : WellFormed(ResponseArray.elems[i])
    /\ Len(ResponseArray.elems) < qCount

\* C8: when the response holds fewer well-formed objects than requested,
\* generateQuestions returns exactly one question per object, in the order
\* of the array, and adds none.
C8_NoPadding ==
    (GenDone /\ FewerWellFormed) =>
        /\ genResult[1].ok
        /\ Len(genResult[1].questions) = Len(ResponseArray.elems)
        /\ \A i \in 1..Len(ResponseArray.elems) :
             /\ genResult[1].questions[i].question_text = ResponseArray.elems[i].question_text
             /\ genResult[1].questions[i].correct_answer = ResponseArray.elems[i].correct_answer

\* two objects answered a request for three, one of them without a type
C8_Witness ==
    /\ GenDone
    /\ FewerWellFormed
    /\ qCount = 3
    /\ Len(genResult[1].questions) = 2
    /\ \E i \in 1..2 : ResponseArray.elems[i].type = Undefined

\* C9: an invocation with a configured credential issues exactly one
\* completion request, for every selector, and none after a failed call or
\* a malformed response.
C9_SingleRequest ==
    /\ Len(outbound) <= 1
    /\ (apiKey # "" /\ genPc \in {"awaiting", "done"}) => Len(outbound) = 1

\* a mixed request ended in a malformed response after its one request
C9_Witness ==
    /\ GenDone
    /\ qType = "mixed"
    /\ ~genResult[1].ok
    /\ responseText # <<>>
    /\ Len(outbound) = 1

\* C10: without the credential generateQuestions fails with the
\* configuration error and no completion request is issued.
C10_NoKeyNoRequest ==
    apiKey = "" =>
        /\ outbound = <<>>
        /\ genPc # "awaiting"
        /\ GenDone =>
             /\ ~genResult[1].ok
             /\ genResult[1].error =
                  "Failed to generate questions: " \o ConfigError(aiProvider)

\* the Gemini client was invoked without its credential and has failed
C10_Witness ==
    /\ GenDone
    /\ apiKey = ""
    /\ aiProvider = "gemini"
    /\ ~genResult[1].ok

\* ------------------------------------------------------------------------
\* Properties of buildPrompt
\* ------------------------------------------------------------------------
PromptsBuilt == callPc = "returned"

\* C11: in both providers two contents that agree on their first 10,000
\* characters give the same prompt for the same selector and count, so that
\* nothing beyond the cap reaches the completion service.
C11_PromptCapped ==
    ( /\ PromptsBuilt
      /\ substring(callArgs.first, 0, MaxPromptChars)
           = substring(callArgs.second, 0, MaxPromptChars) )
    => callResult[1] = callResult[2]

\* the three sub-counts a mixed prompt names
SubCounts(prompt) ==
    SubSeq(prompt.numbers, Len(prompt.numbers) - 2, Len(prompt.numbers))

\* C12: for the selector mixed and a count in 1..50 the three sub-counts of
\* the prompt are natural numbers whose sum is the count, and two prompts
\* built for the same count name the same sub-counts.
C12_MixedSplit ==
    ( /\ PromptsBuilt
      /\ callArgs.type = "mixed" )
    => LET n == SubCounts(callResult[1])
       IN  /\ \A k \in 1..3 : n[k] \in Nat
           /\ n[1] + n[2] + n[3] = callArgs.count
           /\ SubCounts(callResult[2]) = n

C12_Witness ==
    /\ PromptsBuilt
    /\ callArgs.provider = "groq"
    /\ callArgs.type = "mixed"
    /\ callArgs.count = MaxQuestionCount
    /\ callArgs.first # callArgs.second
    /\ SubCounts(callResult[1]) = <<25, 12, 13>>

\* ------------------------------------------------------------------------
\* Properties of parseQuestionsFromResponse
\* ------------------------------------------------------------------------
\* C13: a JSON array text gives the same outcome, and so the same question
\* list, whether it arrives in a fence tagged json, in a bare fence or in no
\* fence, with or without whitespace around it.
C13_FenceInsensitive ==
    callPc = "returned"
    => /\ callResult.fencedJson = callResult.plain
       /\ callResult.fencedBare = callResult.plain
       /\ callResult.padded = callResult.plain

C13_Witness ==
    /\ callPc = "returned"
    /\ callArgs.lead # <<>>
    /\ callArgs.trail # <<>>
    /\ callArgs.gap # <<>>
    /\ callResult.plain.ok
    /\ Len(callResult.plain.questions) >= 2
    /\ callResult.fencedJson = callResult.plain
    /\ callResult.fencedBare = callResult.plain

\* ------------------------------------------------------------------------
\* Properties of the synthesizer's outcome
\* ------------------------------------------------------------------------
\* the completion text was received and what is left of it after fence
\* stripping is no JSON
Unparseable ==
    /\ GenDone
    /\ responseText # <<>>
    /\ ~JSONparse(StripFences(responseText[1])).ok

\* C14: when the fence-stripped response is no JSON, generateQuestions fails,
\* hands back no question at all, and the response text as it was received
\* is in the diagnostics output.
C14_ParseFailure ==
    Unparseable
    => /\ ~genResult[1].ok
       /\ genResult[1].questions = <<>>
       /\ \E k \in 1..Len(consoleLog) :
            /\ consoleLog[k].label = "Raw response:"
            /\ consoleLog[k].raw = responseText[1]

C14_Witness ==
    /\ Unparseable
    /\ StripFences(responseText[1]) # responseText[1]
    /\ StripFences(responseText[1]) = <<"Sorry", " ", "I", " ", "cannot">>
    /\ ~genResult[1].ok
    /\ \E k \in 1..Len(consoleLog) : consoleLog[k].raw = responseText[1]

\* the completion text was received and denotes an array none of whose
\* elements is null
ObjectBatch ==
    /\ GenDone
    /\ responseText # <<>>
    /\ ResponseArray.ok
    /\ ResponseArray.isArray
    /\ \A i \in 1..Len(ResponseArray.elems) : ResponseArray.elems[i].kind # "null"

\* an element all of whose fields survive the || defaults
Complete(e) ==
    /\ e.type \notin {Undefined, ""}
    /\ e.question_text \notin {Undefined, ""}
    /\ e.correct_answer \notin {Undefined, ""}
    /\ e.explanation # ""

FieldsOf(e) ==
    [type |-> e.type, question_text |-> e.question_text,
     correct_answer |-> e.correct_answer, options |-> e.options,
     explanation |-> e.explanation]

\* C15: an element at 0-based index i without question_text, or with the
\* empty one, becomes a question whose text is Question {i+1}; the call
\* succeeds, the complete elements of the batch come back as they were, and
\* no returned question has an empty question_text.
C15_Placeholder ==
    /\ ObjectBatch
       => /\ genResult[1].ok
          /\ Len(genResult[1].questions) = Len(ResponseArray.elems)
          /\ \A k \in 1..Len(ResponseArray.elems) :
               LET e == ResponseArray.elems[k]
                   q == genResult[1].questions[k]
               IN  /\ e.question_text \in {Undefined, ""}
                      => q.question_text = "Question " \o ToString(k)
                   /\ e.question_text \notin {Undefined, ""}
                      => q.question_text = e.question_text
                   /\ Complete(e) => q = FieldsOf(e)
    /\ (GenDone /\ genResult[1].ok)
       => \A k \in 1..Len(genResult[1].questions) :
            genResult[1].questions[k].question_text \notin {Undefined, ""}

C15_Witness ==
    /\ ObjectBatch
    /\ genResult[1].ok
    /\ Len(genResult[1].questions) = 3
    /\ ResponseArray.elems[1] = JsonValues.mc
    /\ ResponseArray.elems[2] = JsonValues.blank
    /\ ResponseArray.elems[3] = JsonValues.empty
    /\ genResult[1].questions[1] = FieldsOf(JsonValues.mc)
    /\ genResult[1].questions[2].question_text = "Question 2"
    /\ genResult[1].questions[3].question_text = "Question 3"

Returned == GenDone /\ genResult[1].ok

\* C16 as stated: every returned question has a non-empty correct_answer,
\* whatever the response omits.
C16_AnswerNonEmpty ==
    Returned
    => \A k \in 1..Len(genResult[1].questions) :
         genResult[1].questions[k].correct_answer \notin {Undefined, ""}

\* C16 amended: every returned question has a correct_answer string, which
\* is the one of its response element when that is present and non-empty and
\* the empty string otherwise.
C16_AnswerDefault ==
    Returned
    => \A k \in 1..Len(genResult[1].questions) :
         LET e == ResponseArray.elems[k]
             q == genResult[1].questions[k]
         IN  /\ q.correct_answer # Undefined
             /\ q.correct_answer =
                  (IF e.correct_answer \in {Undefined, ""} THEN "" ELSE e.correct_answer)

C16_Witness ==
    /\ Returned
    /\ Len(genResult[1].questions) = 2
    /\ ResponseArray.elems[1] = JsonValues.empty
    /\ genResult[1].questions[1].correct_answer = ""
    /\ genResult[1].questions[2].correct_answer = "MOHO"

ConcreteTypes == {"multiple_choice", "identification", "true_false"}

\* C17: for every selector and every response the type of each returned
\* question is multiple_choice, identification or true_false, never mixed.
C17_ConcreteType ==
    Returned
    => \A k \in 1..Len(genResult[1].questions) :
         genResult[1].questions[k].type \in ConcreteTypes

\* the options of a question hold its correct_answer
HoldsAnswer(q) ==
    /\ q.options # <<>>
    /\ \E j \in 1..Len(q.options[1]) : q.options[1][j] = q.correct_answer

\* C18 as stated: every returned multiple_choice or true_false question
\* carries options one of which is its correct_answer.
C18_OptionsHoldAnswer ==
    Returned
    => \A k \in 1..Len(genResult[1].questions) :
         genResult[1].questions[k].type \in {"multiple_choice", "true_false"}
         => HoldsAnswer(genResult[1].questions[k])

\* C18 amended: every returned question carries the options of its response
\* element as they came, none when the element had none, so that the options
\* of a multiple_choice or true_false question hold its correct_answer
\* whenever those of the element held the element's.
C18_OptionsPassThrough ==
    Returned
    => \A k \in 1..Len(genResult[1].questions) :
         LET e == ResponseArray.elems[k]
             q == genResult[1].questions[k]
         IN  /\ q.options = e.options
             /\ (q.type \in {"multiple_choice", "true_false"} /\ HoldsAnswer(e))
                => HoldsAnswer(q)

C18_Witness ==
    /\ Returned
    /\ Len(genResult[1].questions) = 3
    /\ ResponseArray.elems[1] = JsonValues.tf
    /\ HoldsAnswer(genResult[1].questions[1])
    /\ ResponseArray.elems[2] = JsonValues.blank
    /\ genResult[1].questions[2].type = "multiple_choice"
    /\ genResult[1].questions[2].options = << <<"MOHO", "PEO">> >>
    /\ ~HoldsAnswer(genResult[1].questions[2])
    /\ ResponseArray.elems[3] = JsonValues.untyped
    /\ genResult[1].questions[3].type = "true_false"
    /\ genResult[1].questions[3].options = <<>>

\* ------------------------------------------------------------------------
\* Properties of cleanPDFText
\* ------------------------------------------------------------------------
NoBlankRun(t) ==
    \A k \in 1..(Len(t) - 1) : ~(t[k] \in {" ", "\t"} /\ t[k + 1] \in {" ", "\t"})

LinesTrimmed(t) ==
    \A k \in 1..Len(split(t, "\n")) :
        LET line == split(t, "\n")[k]
        IN  line # <<>> => (line[1] \notin WS /\ line[Len(line)] \notin WS)

NoOuterBlankLine(t) ==
    t # <<>> => (t[1] # "\n" /\ t[Len(t)] # "\n")

NoNewlineTriple(t) ==
    \A k \in 1..(Len(t) - 2) : ~(t[k] = "\n" /\ t[k + 1] = "\n" /\ t[k + 2] = "\n")

\* C20: the text cleanPDFText returns has no run of two or more spaces or
\* tabs, no line with whitespace at either end, no blank line at its start or
\* end, and no run of three or more newlines.
C20_CleanShape ==
    callPc = "returned"
    => /\ NoBlankRun(callResult)
       /\ LinesTrimmed(callResult)
       /\ NoOuterBlankLine(callResult)
       /\ NoNewlineTriple(callResult)

\* ------------------------------------------------------------------------
\* Properties of the two handlers
\* ------------------------------------------------------------------------
\* a response body carries a boolean success flag and, when that is false,
\* an error message string
FlaggedBody(b) ==
    /\ b.success \in BOOLEAN
    /\ ~b.success => (b.error # Undefined /\ Len(b.error) > 0)

\* C19: the upload and the generate handler answer every request, those in
\* which the parser or the synthesizer raises included: once the parser or
\* the synthesizer has settled, with a failure or not, the handler holds its
\* outcome and goes on; a handler that has finished has sent a body with a
\* boolean success flag, and a body with success=false carries an error
\* message.
C19_AlwaysAnswered ==
    /\ uploadPc = "respond" => result # <<>>
    /\ uploadPc = "done" => (response # <<>> /\ FlaggedBody(response[1]))
    /\ (handlerPc = "generating" /\ genPc = "done") => genResult # <<>>
    /\ handlerPc = "save_questions" => (quizzes # <<>> /\ genResult[1].ok)
    /\ handlerPc = "done" => (genResponse # <<>> /\ FlaggedBody(genResponse[1]))

\* the synthesizer raised and the generate handler answered with its message
C19_Witness ==
    /\ handlerPc = "done"
    /\ genResult # <<>>
    /\ ~genResult[1].ok
    /\ genResult[1].error = "Failed to generate questions: Failed to parse generated questions"
    /\ genResponse # <<>>
    /\ ~genResponse[1].success
    /\ genResponse[1].error = genResult[1].error
    /\ genResponse[1].status = 500

\* ------------------------------------------------------------------------
\* Further properties of the extractor
\* ------------------------------------------------------------------------
\* parsePPTX was the strategy and it returned a failure
PptxFailed ==
    /\ ParseReturned
    /\ \E k \in 1..Len(invoked) : invoked[k] = "parsePPTX"
    /\ ~result[1].success

\* C21: when loading the archive or reading a slide fails, parsePPTX returns
\* success=false with empty content and an error message, whatever blocks
\* were extracted before, and parsePPTX has run once only.
C21_NoPartialNoRetry ==
    PptxFailed
    => /\ result[1].content = <<>>
       /\ result[1].error \notin {Undefined, ""}
       /\ invoked = <<"parsePPTX">>

C21_Witness ==
    /\ PptxFailed
    /\ slideContents # <<>>
    /\ slideIdx <= Len(slideFiles)
    /\ EntryAt(slideFiles[slideIdx]).readFails
    /\ result[1].content = <<>>
    /\ result[1].error = "Failed to parse PowerPoint"

\* the non-blank fragments of a run that sit in the given tag, trimmed, in
\* document order
RECURSIVE FragmentsIn(_, _)
FragmentsIn(run, tag) ==
    IF run = <<>> THEN <<>>
    ELSE (IF Head(run).tag = tag /\ trim(Head(run).text) # <<>>
          THEN <<trim(Head(run).text)>> ELSE <<>>)
         \o FragmentsIn(Tail(run), tag)

RECURSIVE Without(_, _)
Without(fragments, captured) ==
    IF fragments = <<>> THEN <<>>
    ELSE (IF Includes(captured, Head(fragments)) THEN <<>> ELSE <<Head(fragments)>>)
         \o Without(Tail(fragments), captured)

\* C22: the fragments extractTextFromSlideXml collects are all primary-tag
\* fragments in document order, repeated ones included, followed by the
\* fallback-tag fragments in document order, of which exactly those are left
\* out whose text was captured through the primary tag.
C22_FallbackDedup ==
    callPc = "returned"
    => callResult.textParts =
         FragmentsIn(callArgs, "a:t")
         \o Without(FragmentsIn(callArgs, "t"), FragmentsIn(callArgs, "a:t"))

\* ------------------------------------------------------------------------
\* Further properties of the synthesizer's outcome
\* ------------------------------------------------------------------------
\* C23: questions are returned only when the fence-stripped text is a JSON
\* array all of whose elements are objects; every other JSON value, and an
\* array that holds a number, a string or null, makes the call fail.
C23_ArrayOfObjects ==
    (GenDone /\ responseText # <<>> /\ genResult[1].ok)
    => /\ ResponseArray.ok
       /\ ResponseArray.isArray
       /\ \A k \in 1..Len(ResponseArray.elems) : ResponseArray.elems[k].kind = "object"

\* ------------------------------------------------------------------------
\* Properties of the generate handler
\* ------------------------------------------------------------------------
PostAnswered == handlerPc = "done" /\ genResponse # <<>>

\* the question rows of one quiz, in table order
RowsOf(quizId) == SelectSeq(questionRows, LAMBDA row : row.quiz_id = quizId)

\* C24: when the generate handler answers success=true with questionCount n,
\* the store holds the quiz with total_questions = n and exactly n question
\* rows of that quiz, numbered 1..n in the order of the synthesizer's list;
\* a failed question insert therefore never leads to a success response.
C24_CompletePersistence ==
    (PostAnswered /\ genResponse[1].success)
    => LET n == genResponse[1].questionCount
           rows == RowsOf(genResponse[1].quizId)
       IN  /\ \E k \in 1..Len(quizzes) :
                /\ quizzes[k].id = genResponse[1].quizId
                /\ quizzes[k].total_questions = n
           /\ Len(rows) = n
           /\ \A k \in 1..Len(rows) :
                /\ rows[k].order_num = k
                /\ rows[k].question_text = genResult[1].questions[k].question_text

\* the synthesizer was invoked, a completion request was sent or a row was
\* written
PostActed ==
    \/ genPc # "idle"
    \/ outbound # <<>>
    \/ quizzes # <<>>
    \/ questionRows # <<>>

\* the three checks of the handler pass for the request
ChecksPass ==
    /\ supabaseConfigured
    /\ genRequest.kind = "object"
    /\ genRequest.content # <<>>
    /\ genRequest.filename # <<>>
    /\ genRequest.questionType \notin {Undefined, ""}
    /\ genRequest.questionCount >= 1
    /\ genRequest.questionCount <= 50

\* C25: the generate handler invokes the synthesizer only when the
\* configuration check, the required-fields check and the check
\* 1 <= questionCount <= 50 have passed; when one of them fails no completion
\* request is sent and no row is written.
C25_ChecksFirst ==
    (handlerPc # "idle" /\ PostActed) => ChecksPass

C25_Witness ==
    /\ PostAnswered
    /\ ChecksPass
    /\ genRequest.questionCount = 50
    /\ Len(outbound) = 1
    /\ quizzes # <<>>
    /\ questionRows # <<>>

\* generateQuestions threw, or returned the empty list
SynthesisUseless ==
    /\ handlerPc # "idle"
    /\ genResult # <<>>
    /\ (~genResult[1].ok \/ genResult[1].questions = <<>>)

\* C26: when the synthesizer fails or returns the empty list, the generate
\* handler writes neither a quiz row nor a question row and its answer
\* carries success=false.
C26_NothingPersisted ==
    SynthesisUseless
    => /\ quizzes = <<>>
       /\ questionRows = <<>>
       /\ handlerPc \in {"generating", "done"}
       /\ PostAnswered => ~genResponse[1].success

C26_Witness ==
    /\ SynthesisUseless
    /\ PostAnswered
    /\ genResult[1].ok
    /\ genResult[1].questions = <<>>
    /\ ~genResponse[1].success
    /\ genResponse[1].error = "Failed to generate questions. Please try again."
    /\ quizzes = <<>>

\* ------------------------------------------------------------------------
\* Properties of the page flow
\* ------------------------------------------------------------------------
\* among the first n events there is the successful upload of the file with
\* this content
UploadedBefore(n, filename, content) ==
    \E j \in 1..n :
        /\ netLog[j].kind = "upload succeeded"
        /\ netLog[j].filename = filename
        /\ netLog[j].content = content

\* C27: a generation request is sent only after an upload of that file has
\* come back with success; what sessionStorage and the configure page hold
\* is the content of a successful upload, so that without it nothing is
\* sent, and a failed upload stores nothing.
C27_UploadBeforeGenerate ==
    /\ \A i \in 1..Len(netLog) :
         netLog[i].kind = "generate"
         => UploadedBefore(i - 1, netLog[i].filename, netLog[i].content)
    /\ uploadedContent # <<>>
       => UploadedBefore(Len(netLog), uploadedContent[1].filename,
                         uploadedContent[1].content)
    /\ uploadedData # <<>>
       => UploadedBefore(Len(netLog), uploadedData[1].filename, uploadedData[1].content)

\* a.pdf was uploaded, b.pptx failed, and the one generation request is for
\* a.pdf
C27_Witness ==
    /\ \E i \in 1..Len(netLog) :
         netLog[i] = Sent("generate", "a.pdf", ExtractedFrom("a.pdf"))
    /\ \E i \in 1..Len(netLog) :
         netLog[i].kind = "upload failed" /\ netLog[i].filename = "b.pptx"
    /\ \A i \in 1..Len(netLog) :
         netLog[i].kind = "generate" => netLog[i].filename = "a.pdf"

\* ------------------------------------------------------------------------
\* Properties of the submit handler
\* ------------------------------------------------------------------------
StoredOfQuiz == SelectSeq(questionRows, LAMBDA q : q.quiz_id = submission.quizId)

\* the stored questions for which the submission has a member
Answered ==
    { k \in 1..Len(StoredOfQuiz) : submission.answers[RowId(StoredOfQuiz[k])] # <<>> }

\* C28: in a success response of the submit handler, total is the number of
\* stored questions of the quiz, 0 <= score <= total, and no more questions
\* count toward score than the submission has answers for.
C28_ScoreOfAnswered ==
    (submitResponse # <<>> /\ submitResponse[1].success)
    => /\ submitResponse[1].total = Len(StoredOfQuiz)
       /\ 0 <= submitResponse[1].score
       /\ submitResponse[1].score <= submitResponse[1].total
       /\ submitResponse[1].score <= Cardinality(Answered)

\* ------------------------------------------------------------------------
\* Properties of the quiz page
\* ------------------------------------------------------------------------
\* every question of the quiz has a non-empty answer recorded
AllAnswered ==
    \A k \in 1..totalQuestions :
        /\ pageAnswers[RowId(pageQuiz[1].questions[k])] # <<>>
        /\ pageAnswers[RowId(pageQuiz[1].questions[k])][1] # ""

\* C29: while the quiz is shown, currentIndex is within 0..totalQuestions-1,
\* and the submit button is enabled only when every question has a
\* non-empty answer recorded.
C29_IndexAndSubmit ==
    QuizShown
    => /\ currentIndex \in 0..(totalQuestions - 1)
       /\ SubmitEnabled => AllAnswered

\* ------------------------------------------------------------------------
\* Properties of the study notes
\* ------------------------------------------------------------------------
\* the callers that passed the tests of POST and called createOrUpdateStudyNote
\* for this question
CallsFor(questionId) ==
    { c \in Callers : /\ noteRequest[c].questionId = questionId
                      /\ noteRequest[c].noteText # ""
                      /\ supabaseConfigured }

NotesOf(questionId) ==
    { k \in 1..Len(studyNotes) : studyNotes[k].question_id = questionId }

\* C30: once all concurrent createOrUpdateStudyNote calls for a question are
\* done, the question has at most one study note, its text is the text of
\* one of the calls, and every call has returned the saved note.
C30_UpsertRace ==
    \A questionId \in {"q1", "q2"} :
        (CallsFor(questionId) # {} /\ \A c \in Callers : notePc[c] = "done")
        => /\ Cardinality(NotesOf(questionId)) <= 1
           /\ \A k \in NotesOf(questionId) :
                \E c \in CallsFor(questionId) :
                    studyNotes[k].note_text = noteRequest[c].noteText
           /\ \A c \in CallsFor(questionId) : noteResponse[c][1].success

====
